---------------------------- MODULE Spec2Model ----------------------------
(***************************************************************************)
(* Model of the M-Team auto-login repository:                              *)
(*   - the verification-code extractor (gmail_client.py,                   *)
(*     GmailClient._extract_code_from_email),                              *)
(*   - the mailbox poller (GmailClient.get_verification_code_via_imap),    *)
(*   - the login flow (mteam_login.py, MTeamLogin.login_to_mteam and       *)
(*     MTeamLogin.handle_email_verification),                              *)
(*   - the log records that show the mailbox address,                      *)
(*   - the outer scheduler (run.py, main and should_run_login).            *)
(* Texts are sequences of one-character strings; a character outside ASCII *)
(* is written by its code point ("u9A8C" is one character).                *)
(***************************************************************************)
EXTENDS Integers, Sequences, FiniteSets, TLC

VARIABLES
    epc,        \* extractor (SpecExtract, SpecBody): "parse" | "start" | "done"
    message,    \* the parsed e-mail handed to _get_email_body
    body,       \* the plain text handed to the pattern rules
    code,       \* what the pattern rules returned (NoCode = Python None)
    \* ---- mailbox poller (SpecPoll) ----
    ppc,        \* position inside get_verification_code_via_imap
    client,     \* the GmailClient object: [config, gmail_config]
    timeout,    \* argument timeout
    sent_after_time, \* argument sent_after_time (0 = None)
    now,        \* wall clock, seconds
    latency,    \* seconds the mailbox server takes to answer one sub-pass
    call_time,  \* clock value when the call was entered
    start_time, \* local start_time (line 126)
    search_time,\* local search_time: the day given to SINCE
    search_attempt,  \* local search_attempt
    search_round,    \* local search_round (0 or 1)
    strat,      \* number (1..12) of the next search criteria of this sub-pass
    retry,      \* connection attempts made so far
    auth_retry, \* login attempts made so far
    conn,       \* the IMAP session: "none" | "open" | "auth" | "selected" | "closed" | "logout"
    alive,      \* FALSE once the session's socket is lost
    faults,     \* how many more failures the network and the server may produce
    mailbox,    \* message id -> message
    verification_code, \* local verification_code
    code_msg,   \* local msg_id of the message verification_code came from (0 = none)
    pollResult, \* return value of the call, once ppc = "done"
    hist,       \* history of the call, read by the properties only
    \* ---- login flow (SpecLogin) ----
    lpc,        \* position inside login_to_mteam / handle_email_verification
    config,     \* self.config of MTeamLogin: the configuration file
    page,       \* what the browser shows after the credentials were submitted
    attempt,    \* loop variable attempt of the navigation loop (line 267) and of
                \* the retrieval loop (line 743)
    browser,    \* self.driver and the browser sessions started so far
    runResult,  \* what MTeamLogin.run gave its caller
    loginResult,\* return value of login_to_mteam
    lhist,      \* history of the login run, read by the properties only
    \* ---- log records (SpecLog) ----
    address,    \* the mailbox address of the configuration, as text
    logged,     \* the log records written so far that show the address
    \* ---- outer scheduler (SpecSchedule) ----
    spc,        \* position of run.py: "asleep" | "run" | "save"
    wall,       \* wall clock of the scheduler, hours
    marker,     \* the file last_run.timestamp
    shist       \* the last decision of should_run_login, read by the properties only

extractVars == <<epc, message, body, code>>
pollVars == <<ppc, client, timeout, sent_after_time, now, latency, call_time, start_time,
              search_time, search_attempt, search_round, strat, retry, auth_retry, conn,
              alive, faults, mailbox, verification_code, code_msg, pollResult, hist>>
loginVars == <<lpc, config, page, attempt, browser, runResult, loginResult, lhist>>
logVars == <<address, logged>>
schedVars == <<spc, wall, marker, shist>>
outerVars == <<logVars, schedVars>>
vars == <<extractVars, pollVars, loginVars, outerVars>>

-----------------------------------------------------------------------------
(***************************************************************************)
(* Characters and character classes of the regular expressions.            *)
(***************************************************************************)

\* Python None for an Optional[str]; the extractor never returns "".
NoCode == <<>>

LowerSeq == <<"a","b","c","d","e","f","g","h","i","j","k","l","m",
              "n","o","p","q","r","s","t","u","v","w","x","y","z">>
UpperSeq == <<"A","B","C","D","E","F","G","H","I","J","K","L","M",
              "N","O","P","Q","R","S","T","U","V","W","X","Y","Z">>

\* \d
DigitSet == {"0","1","2","3","4","5","6","7","8","9"}
LowerSet == {LowerSeq[i] : i \in 1..26}
UpperSet == {UpperSeq[i] : i \in 1..26}
\* [A-Za-z0-9], and [A-Z0-9] under re.IGNORECASE
AlnumSet == DigitSet \cup LowerSet \cup UpperSet
\* \s
SpaceSet == {" ", "\n", "\t"}
\* [：:\s]   (uFF1A is the full-width colon)
SepSet == {"uFF1A", ":"} \cup SpaceSet

\* str.lower() on one character
ToLower(c) ==
    IF c \in UpperSet
    THEN LowerSeq[CHOOSE i \in 1..26 : UpperSeq[i] = c]
    ELSE c

\* str.lower()
LowerStr(s) == [i \in 1..Len(s) |-> ToLower(s[i])]

\* str.strip()
RECURSIVE LStrip(_)
LStrip(s) == IF s # <<>> /\ Head(s) \in SpaceSet THEN LStrip(Tail(s)) ELSE s
RECURSIVE RStrip(_)
RStrip(s) ==
    IF s # <<>> /\ s[Len(s)] \in SpaceSet THEN RStrip(SubSeq(s, 1, Len(s) - 1)) ELSE s
Strip(s) == RStrip(LStrip(s))

\* the literal texts of the patterns, in lower case (the flags make them case-blind)
LabelZh == <<"u9A8C", "u8BC1", "u7801">>
LabelCode == <<"c","o","d","e">>
LabelVerificationCode ==
    <<"v","e","r","i","f","i","c","a","t","i","o","n"," ","c","o","d","e">>

\* the literal `lit` stands at position i of s (re.IGNORECASE)
HasAt(s, i, lit) ==
    /\ i + Len(lit) - 1 <= Len(s)
    /\ \A k \in 1..Len(lit) : ToLower(s[i + k - 1]) = lit[k]

\* greedy repetition: how many characters of class cls stand at position i, at most max
RECURSIVE RunLen(_, _, _, _)
RunLen(s, i, cls, max) ==
    IF max = 0 \/ i > Len(s) \/ s[i] \notin cls
    THEN 0
    ELSE 1 + RunLen(s, i + 1, cls, max - 1)

NoMatch == [ok |-> FALSE, code |-> <<>>, next |-> 0]

\* the pattern list without its leading 6-digit rule
patternsNoSixFirst ==
    << [label |-> <<>>, sep |-> FALSE, cls |-> DigitSet, min |-> 4, max |-> 8],
       [label |-> <<>>, sep |-> FALSE, cls |-> DigitSet, min |-> 4, max |-> 8],
       [label |-> LabelZh, sep |-> TRUE, cls |-> DigitSet, min |-> 4, max |-> 8],
       [label |-> LabelVerificationCode, sep |-> TRUE, cls |-> DigitSet, min |-> 4, max |-> 8],
       [label |-> LabelCode, sep |-> TRUE, cls |-> DigitSet, min |-> 4, max |-> 8],
       [label |-> LabelZh, sep |-> TRUE, cls |-> AlnumSet, min |-> 4, max |-> 8],
       [label |-> LabelVerificationCode, sep |-> TRUE, cls |-> AlnumSet, min |-> 4, max |-> 8] >>

(***************************************************************************)
(* patterns 1..7 of _extract_code_from_email: label, optional separators,  *)
(* one captured group of cls{min,max}.                                     *)
(***************************************************************************)
patterns ==
    << [label |-> <<>>, sep |-> FALSE, cls |-> DigitSet, min |-> 6, max |-> 6],
       [label |-> <<>>, sep |-> FALSE, cls |-> DigitSet, min |-> 4, max |-> 8],
       [label |-> LabelZh, sep |-> TRUE, cls |-> DigitSet, min |-> 4, max |-> 8],
       [label |-> LabelVerificationCode, sep |-> TRUE, cls |-> DigitSet, min |-> 4, max |-> 8],
       [label |-> LabelCode, sep |-> TRUE, cls |-> DigitSet, min |-> 4, max |-> 8],
       [label |-> LabelZh, sep |-> TRUE, cls |-> AlnumSet, min |-> 4, max |-> 8],
       [label |-> LabelVerificationCode, sep |-> TRUE, cls |-> AlnumSet, min |-> 4, max |-> 8] >>

\* one match attempt of pattern p at position i
MatchAt(s, i, p) ==
    IF ~HasAt(s, i, p.label)
    THEN NoMatch
    ELSE LET a == i + Len(p.label)
             b == a + (IF p.sep THEN RunLen(s, a, SepSet, Len(s)) ELSE 0)
             n == RunLen(s, b, p.cls, p.max)
         IN  IF n >= p.min
             THEN [ok |-> TRUE, code |-> SubSeq(s, b, b + n - 1), next |-> b + n]
             ELSE NoMatch

\* pattern 8: (?:^|\s)([A-Z0-9]{6})(?:\s|$) under re.IGNORECASE | re.MULTILINE
LineStart(s, i) == i = 1 \/ (i - 1 <= Len(s) /\ s[i - 1] = "\n")
TokenAt(s, j) ==
    /\ RunLen(s, j, AlnumSet, 6) = 6
    /\ \/ j + 6 = Len(s) + 1
       \/ (j + 6 <= Len(s) /\ s[j + 6] \in SpaceSet)
TokenMatch(s, j) ==
    [ok |-> TRUE, code |-> SubSeq(s, j, j + 5),
     next |-> IF j + 6 <= Len(s) THEN j + 7 ELSE j + 6]
MatchToken(s, i) ==
    IF LineStart(s, i) /\ TokenAt(s, i)
    THEN TokenMatch(s, i)
    ELSE IF i <= Len(s) /\ s[i] \in SpaceSet /\ TokenAt(s, i + 1)
         THEN TokenMatch(s, i + 1)
         ELSE NoMatch

NumPatterns == Len(patterns) + 1
MatchPattern(s, i, k) == IF k <= Len(patterns) THEN MatchAt(s, i, patterns[k]) ELSE MatchToken(s, i)

\* re.findall(pattern k, s): the captured groups of the non-overlapping matches, left to right
RECURSIVE FindAll(_, _, _)
FindAll(s, i, k) ==
    IF i > Len(s)
    THEN <<>>
    ELSE LET m == MatchPattern(s, i, k)
         IN  IF m.ok THEN <<m.code>> \o FindAll(s, m.next, k) ELSE FindAll(s, i + 1, k)

stoplist ==
    { <<"i","m","a","g","e">>, <<"s","t","y","l","e">>, <<"c","l","a","s","s">>,
      <<"w","i","d","t","h">>, <<"h","e","i","g","h","t">>, <<"c","o","l","o","r">> }

\* the length test alone, without the stoplist
AcceptedNoStoplist(c) == Len(c) >= 4

\* the test of line 420 (both branches below it return the code)
Accepted(c) == Len(c) >= 4 /\ LowerStr(c) \notin stoplist

\* for code in matches: the first accepted one, stripped
RECURSIVE FirstAccepted(_)
FirstAccepted(matches) ==
    IF matches = <<>>
    THEN NoCode
    ELSE LET c == Strip(Head(matches))
         IN  IF Accepted(c) THEN c ELSE FirstAccepted(Tail(matches))

\* for pattern in patterns: ... return code; return None at the end
RECURSIVE ExtractFrom(_, _)
ExtractFrom(s, k) ==
    IF k > NumPatterns
    THEN NoCode
    ELSE LET c == FirstAccepted(FindAll(s, 1, k))
         IN  IF c # NoCode THEN c ELSE ExtractFrom(s, k + 1)

ExtractCode(s) == ExtractFrom(s, 1)

-----------------------------------------------------------------------------
(***************************************************************************)
(* The extractor run on its own: the body is drawn from the texts made of  *)
(* at most MaxPieces of the pieces below.                                  *)
(***************************************************************************)
MaxPieces == 3

Pieces ==
    << <<"4","8","2","9","1","3">>,
       <<"1","2","3","4","5","6","7","8">>,
       <<"1","2","3","4">>,
       <<" ">>,
       <<"\n">>,
       LabelZh \o <<"uFF1A">>,
       <<"c","o","d","e",":">>,
       <<"w","i","d","t","h","=","1","0","0">>,
       <<"s","t","y","l","e","=","2","0","0">>,
       <<"S","t","y","l","e">>,
       <<"A","B","1","2","C","D">>,
       <<"u60A8","u7684","u9A57","u8B49","u78BC","u662F"," ">>,
       <<"uFF0C","u8BF7","u5C3D","u5FEB","u4F7F","u7528">>,
       LabelVerificationCode >>

RECURSIVE Join(_)
Join(ps) == IF ps = <<>> THEN <<>> ELSE Pieces[Head(ps)] \o Join(Tail(ps))

Bodies == { Join(ps) : ps \in UNION { [1..n -> 1..Len(Pieces)] : n \in 0..MaxPieces } }

PollIdle ==
    /\ ppc = "idle"
    /\ client = [config |-> <<>>, gmail_config |-> <<>>]
    /\ timeout = 0
    /\ sent_after_time = 0
    /\ now = 0
    /\ latency = 0
    /\ call_time = 0
    /\ start_time = 0
    /\ search_time = 0
    /\ search_attempt = 0
    /\ search_round = 0
    /\ strat = 0
    /\ retry = 0
    /\ auth_retry = 0
    /\ conn = "none"
    /\ alive = FALSE
    /\ faults = 0
    /\ mailbox = <<>>
    /\ verification_code = NoCode
    /\ code_msg = 0
    /\ pollResult = NoCode
    /\ hist = <<>>

LoginIdle ==
    /\ lpc = "idle"
    /\ config = <<>>
    /\ page = <<>>
    /\ attempt = 0
    /\ browser = <<>>
    /\ runResult = "pending"
    /\ loginResult = "pending"
    /\ lhist = <<>>

LogIdle ==
    /\ address = <<>>
    /\ logged = {}

ScheduleIdle ==
    /\ spc = "idle"
    /\ wall = 0
    /\ marker = <<>>
    /\ shist = <<>>

ExtractInit ==
    /\ epc = "start"
    /\ message = <<>>
    /\ body \in Bodies
    /\ code = NoCode
    /\ PollIdle
    /\ LoginIdle
    /\ LogIdle
    /\ ScheduleIdle

\* lines 402-431: the pattern rules applied to the body
ExtractRun ==
    /\ epc = "start"
    /\ code' = ExtractCode(body)
    /\ epc' = "done"
    /\ UNCHANGED <<message, body, pollVars, loginVars, outerVars>>

ExtractNext == ExtractRun

SpecExtract == ExtractInit /\ [][ExtractNext]_vars

-----------------------------------------------------------------------------
(***************************************************************************)
(* _get_email_body (lines 437-474) on its own, followed by the pattern     *)
(* rules.  A message is [multipart, parts]; a part is its content type,    *)
(* whether its Content-Disposition says attachment, and its decoded text.  *)
(***************************************************************************)
MaxParts == 2

PlainText == <<"c","o","d","e",":"," ","4","8","2","9","1","3">>
HtmlText == <<"<","p"," ","w","i","d","t","h","=","1","0","0","0","0","0",">">>

Part(ctype, attachment, payload) ==
    [ctype |-> ctype, attachment |-> attachment, payload |-> payload]

PartKinds ==
    { Part("text/plain", FALSE, PlainText),
      Part("text/plain", FALSE, <<>>),
      Part("text/plain", TRUE, PlainText),
      Part("text/html", FALSE, HtmlText),
      Part("text/html", TRUE, HtmlText),
      Part("image/png", FALSE, HtmlText) }

Messages ==
    { [multipart |-> TRUE, parts |-> ps] :
        ps \in UNION { [1..n -> PartKinds] : n \in 1..MaxParts } }
    \cup { [multipart |-> FALSE, parts |-> <<p>>] : p \in PartKinds }

\* lines 454-464: the parts of message.walk() whose text goes into the body
IsText(p) == ~p.attachment /\ p.ctype \in {"text/plain", "text/html"}

\* lines 450-464: the loop over message.walk(): body += the decoded text of
\* every part that is no attachment and is text/plain or text/html
RECURSIVE WalkParts(_)
WalkParts(ps) ==
    IF ps = <<>> THEN <<>>
    ELSE (IF IsText(Head(ps)) THEN Head(ps).payload ELSE <<>>) \o WalkParts(Tail(ps))

\* lines 437-474: _get_email_body
get_email_body(msg) ==
    IF msg.multipart THEN WalkParts(msg.parts) ELSE msg.parts[1].payload

BodyInit ==
    /\ epc = "parse"
    /\ message \in Messages
    /\ body = <<>>
    /\ code = NoCode
    /\ PollIdle
    /\ LoginIdle
    /\ LogIdle
    /\ ScheduleIdle

\* line 394: body = self._get_email_body(message)
GetBody ==
    /\ epc = "parse"
    /\ body' = get_email_body(message)
    /\ epc' = "start"
    /\ UNCHANGED <<message, code, pollVars, loginVars, outerVars>>

BodyNext ==
    \/ GetBody
    \/ ExtractRun

SpecBody == BodyInit /\ [][BodyNext]_vars

\* the text/plain and the text/html parts of a message that are no attachments
PlainParts(msg) == { i \in DOMAIN msg.parts : IsText(msg.parts[i]) /\ msg.parts[i].ctype = "text/plain" }
HtmlParts(msg) == { i \in DOMAIN msg.parts : IsText(msg.parts[i]) /\ msg.parts[i].ctype = "text/html" }

\* the texts of the text/plain parts, in order
RECURSIVE PlainOnly(_)
PlainOnly(ps) ==
    IF ps = <<>> THEN <<>>
    ELSE (IF IsText(Head(ps)) /\ Head(ps).ctype = "text/plain" THEN Head(ps).payload ELSE <<>>)
         \o PlainOnly(Tail(ps))

\* C27: for a multipart message with a text/plain part and a text/html part
\* the body is the text of the plain part only.
C27_PlainPreferred ==
    ( /\ epc # "parse"
      /\ message.multipart
      /\ PlainParts(message) # {}
      /\ HtmlParts(message) # {} )
    => body = PlainOnly(message.parts)

-----------------------------------------------------------------------------
(***************************************************************************)
(* Properties of the extractor.                                            *)
(***************************************************************************)

\* a maximal run of exactly six digits stands somewhere in s
HasSixDigitToken(s) ==
    \E i \in 1..Len(s) :
        /\ (i = 1 \/ s[i - 1] \notin DigitSet)
        /\ RunLen(s, i, DigitSet, Len(s)) = 6

IsSubstring(c, s) == \E i \in 1..(Len(s) - Len(c) + 1) : SubSeq(s, i, i + Len(c) - 1) = c

SixDigits(c) == Len(c) = 6 /\ \A i \in 1..6 : c[i] \in DigitSet

\* "您的驗證碼是 482913，请尽快使用"
ExampleBody == Join(<<12, 1, 13>>)
\* "width=100 style=200"
MarkupBody == Join(<<8, 4, 9>>)

\* C8: whenever the body holds a 6-digit all-numeric token, the extractor
\* returns six digits taken from the body, wherever the token stands and
\* whatever labelled codes, shorter tokens or other digit runs surround it;
\* the example body yields 482913.
C8_SixDigitPreferred ==
    epc = "done" =>
        /\ HasSixDigitToken(body) => (SixDigits(code) /\ IsSubstring(code, body))
        /\ body = ExampleBody => code = <<"4","8","2","9","1","3">>

\* C8 witness: a 6-digit token that follows a 4-digit number and a label
C8_Witness ==
    /\ epc = "done"
    /\ body = Join(<<3, 7, 1>>)
    /\ code = <<"4","8","2","9","1","3">>

\* C9: every returned code has 4 to 8 characters and is not a stoplist word
\* in any letter case; "width=100 style=200" yields no code.
C9_LengthAndStoplist ==
    epc = "done" =>
        /\ code # NoCode => (Len(code) >= 4 /\ Len(code) <= 8 /\ LowerStr(code) \notin stoplist)
        /\ body = MarkupBody => code = NoCode

\* C9 witness: a labelled "Style" was matched and rejected, so no code came back
C9_Witness ==
    /\ epc = "done"
    /\ body = Join(<<6, 10>>)
    /\ <<"S","t","y","l","e">> = Head(FindAll(body, 1, 6))
    /\ code = NoCode

\* c stands in s as a whole digit token: no digit before it, none after it
IsDigitToken(c, s) ==
    \E i \in 1..(Len(s) - Len(c) + 1) :
        /\ SubSeq(s, i, i + Len(c) - 1) = c
        /\ (i = 1 \/ s[i - 1] \notin DigitSet)
        /\ (i + Len(c) > Len(s) \/ s[i + Len(c)] \notin DigitSet)

\* C38: a returned code of six digits is a whole digit token of the body,
\* never six digits cut out of a longer run of digits
C38_WholeToken ==
    (epc = "done" /\ SixDigits(code)) => IsDigitToken(code, body)

-----------------------------------------------------------------------------
(***************************************************************************)
(* The mailbox poller: GmailClient.get_verification_code_via_imap.         *)
(* Times are whole seconds.  The mailbox holds the messages MsgIds; a      *)
(* message is visible to the session once now >= arrive.                   *)
(***************************************************************************)

\* constants of get_verification_code_via_imap
max_retries == 3
max_auth_retries == 2
max_attempts == 5
Guard == 120
RecentWindow == 5 * 60
ConnectDelay == 2
AuthDelay == 2
SubPassDelay == 1
MaxBackoff == 5
MinRemaining == 5
BackoffMargin == 2
DefaultDeleteWait == 5
SecondsPerDay == 86400

\* strftime("%d-%b-%Y"): the calendar day of a time stamp
Day(t) == t \div SecondsPerDay

\* dict.get(key, default)
DictGet(d, k, default) == IF k \in DOMAIN d THEN d[k] ELSE default

\* GmailClient.__init__
GmailClientInit(cfg) ==
    [config |-> cfg, gmail_config |-> DictGet(cfg, "gmail", <<>>)]

\* the configuration file written by install.py, with the optional section
\* email_management read by the poller
GmailSection == [email |-> "user@gmail.com", password |-> "app-password", method |-> "imap"]
MTeamSection == [username |-> "user", password |-> "secret"]
ConfigFile(del) ==
    [mteam |-> MTeamSection,
     gmail |-> GmailSection,
     email_management |-> [delete_after_use |-> del, delete_wait_seconds |-> DefaultDeleteWait]]

\* line 216-219: email_config.get('delete_after_use', False)
DeleteAfterUse(c) ==
    DictGet(DictGet(c.config, "email_management", <<>>), "delete_after_use", FALSE)
DeleteWait(c) ==
    DictGet(DictGet(c.config, "email_management", <<>>), "delete_wait_seconds", DefaultDeleteWait)

(***************************************************************************)
(* search_criteria (lines 166-192).  A criteria is a conjunction of an     *)
(* optional SINCE day, an optional disjunction of text keys and an         *)
(* optional UNSEEN.  A message carries the set of text keys it satisfies:  *)
(*   "subject"  SUBJECT holds a verification keyword                       *)
(*   "body"     BODY holds "verification code" in one of the languages     *)
(*   "m-team"   FROM, SUBJECT or BODY holds "m-team"                       *)
(*   "mteam"    FROM, SUBJECT or BODY holds "mteam"                        *)
(*   "addr1", "addr2", "domain"   FROM is one of the listed addresses      *)
(*   "regex"    BODY holds the literal text \d{6} or \d{4}                 *)
(***************************************************************************)
search_criteria ==
    << [since |-> TRUE,  keys |-> {"subject"}, unseen |-> FALSE],
       [since |-> TRUE,  keys |-> {"body"},    unseen |-> FALSE],
       [since |-> TRUE,  keys |-> {"m-team"},  unseen |-> FALSE],
       [since |-> TRUE,  keys |-> {"mteam"},   unseen |-> FALSE],
       [since |-> TRUE,  keys |-> {"addr1"},   unseen |-> FALSE],
       [since |-> TRUE,  keys |-> {"addr2"},   unseen |-> FALSE],
       [since |-> TRUE,  keys |-> {"domain"},  unseen |-> FALSE],
       [since |-> TRUE,  keys |-> {"regex"},   unseen |-> FALSE],
       [since |-> TRUE,  keys |-> {},          unseen |-> FALSE],
       [since |-> FALSE, keys |-> {"subject"}, unseen |-> FALSE],
       [since |-> FALSE, keys |-> {"body"},    unseen |-> FALSE],
       [since |-> FALSE, keys |-> {},          unseen |-> TRUE] >>

\* criteria written with non-ASCII text or with an infix OR: whether the
\* server accepts them is up to the server, so each such search may be refused
Doubtful == {1, 2, 3, 4, 5, 6, 8, 10, 11}

\* the text keys of the two kinds of message
KeysOf(kind) ==
    IF kind = "verification" THEN {"subject", "m-team", "addr1", "domain"} ELSE {}

Visible(m, t) == m.arrive <= t /\ ~m.expunged

\* does message m satisfy criteria k (IMAP SINCE compares the arrival day)
Satisfies(m, k, day) ==
    LET c == search_criteria[k]
    IN  /\ c.since => Day(m.arrive) >= day
        /\ c.keys # {} => c.keys \cap KeysOf(m.kind) # {}
        /\ c.unseen => ~m.seen

\* mail.search(None, criteria): the ids of the visible messages that satisfy it
SearchIds(box, k, t, day) ==
    { id \in DOMAIN box : Visible(box[id], t) /\ Satisfies(box[id], k, day) }

\* the message texts of the mailbox (_get_email_body of the message)
CodeA == <<"1","1","1","1","1","1">>
CodeB == <<"2","2","2","2","2","2">>
Prose == <<"h","e","l","l","o">>
MsgBodies == {CodeA, CodeB, Prose, <<>>}
\* the pattern rules applied to each of them
BodyCode == [b \in MsgBodies |-> ExtractCode(b)]

\* the age test without the comparison (every dated message passes)
IsStaleNever(m, T) == FALSE

\* lines 372-389: the age test of _extract_code_from_email
IsStale(m, T) == T # 0 /\ m.dated /\ m.date < T

\* _extract_code_from_email after a successful fetch
extract_code_from_email(m, T) ==
    IF IsStale(m, T)
    THEN NoCode
    ELSE IF m.body = <<>> THEN NoCode ELSE BodyCode[m.body]

\* the candidates taken in the order the server lists them, oldest first
NextCandidateOldest(ids) == CHOOSE x \in ids : \A y \in ids : x <= y

\* line 207: for msg_id in reversed(message_ids): the highest id comes first
NextCandidate(ids) == CHOOSE x \in ids : \A y \in ids : y <= x

\* lines 207-237: for msg_id in reversed(message_ids), up to the first code;
\* the fetch of the ids in bad fails
RECURSIVE Examine(_, _, _, _)
Examine(ids, box, bad, T) ==
    IF ids = {}
    THEN [code |-> NoCode, msg |-> 0, fetched |-> {}]
    ELSE LET id == NextCandidate(ids)
             c == IF id \in bad THEN NoCode ELSE extract_code_from_email(box[id], T)
         IN  IF c # NoCode
             THEN [code |-> c, msg |-> id, fetched |-> {id}]
             ELSE LET r == Examine(ids \ {id}, box, bad, T)
                  IN  [r EXCEPT !.fetched = @ \cup ({id} \ bad)]

\* a fetch of RFC822 sets \Seen
MarkSeen(box, ids) == [id \in DOMAIN box |-> IF id \in ids THEN [box[id] EXCEPT !.seen = TRUE] ELSE box[id]]
\* mail.store(id, '+FLAGS', '\\Deleted')
Flag(box, id) == [box EXCEPT ![id].deleted = TRUE]
\* the message carries \Deleted at time t: set by this session, or by
\* another client of the mailbox at the time m.flagged (0: never)
Deleted(m, t) == m.deleted \/ (m.flagged # 0 /\ m.flagged <= t)
\* mail.expunge(), and the expunge that mail.close() performs: every message
\* that carries \Deleted is removed
Expunge(box, t) ==
    [id \in DOMAIN box |->
        IF Visible(box[id], t) /\ Deleted(box[id], t)
        THEN [box[id] EXCEPT !.expunged = TRUE]
        ELSE box[id]]

Elapsed == now - start_time


(***************************************************************************)
(* The calls of the poller: arguments, network and mailbox.                 *)
(***************************************************************************)
MaxLatency == 1
MaxFaults == 1
ShortTimeout == 10
ArrivalDelay == 3
LoginTimeout == 60
SendWait == 5

MsgIds == {1, 2}
\* the time the code-send action was triggered
T0 == SecondsPerDay + 40000
\* the poll call is entered SendWait seconds after the trigger
CallTime == T0 + SendWait
DateStale == T0 - Guard - 10
DateInGuard == T0 - Guard + 60
DateFresh == T0 + 3
ArrivedBefore == T0 - 200
ArrivesLater == CallTime + ArrivalDelay
\* a message of the same day that is older than the recent window
ArrivedLongAgo == CallTime - 2 * RecentWindow

Msg(arrive, dated, date, text, kind) ==
    [arrive |-> arrive, dated |-> dated, date |-> date, body |-> text, kind |-> kind,
     seen |-> FALSE, deleted |-> FALSE, expunged |-> FALSE, flagged |-> 0]

\* another client of the mailbox flags message 1 before the call, or
\* OtherFlagDelay seconds after it was entered
OtherFlagDelay == 2
OtherFlagTimes == {ArrivedBefore, CallTime + OtherFlagDelay}

\* message 1 is in the mailbox before the call; message 2 has the higher id
\* and is there before the call or arrives during it
FirstMessages(k) ==
    { Msg(ArrivedBefore, d[1], d[2], b, k) :
        d \in {<<FALSE, 0>>, <<TRUE, DateStale>>, <<TRUE, DateInGuard>>, <<TRUE, DateFresh>>},
        b \in {CodeA, Prose} }
SecondMessages(k) ==
    { Msg(a, TRUE, d, b, k) :
        a \in {ArrivedBefore, ArrivesLater}, d \in {DateStale, DateFresh},
        b \in {CodeB, Prose} }
Mailboxes ==
    { <<m1, m2>> : m1 \in FirstMessages("other"), m2 \in SecondMessages("verification") }
    \cup { <<m1, m2>> : m1 \in FirstMessages("verification"), m2 \in SecondMessages("other") }

\* a client built from the whole configuration, with deletion on or off
Clients == { GmailClientInit(ConfigFile(TRUE)), GmailClientInit(ConfigFile(FALSE)) }
\* a client built from the gmail section alone (test_verification_code.py:71)
SectionClient == GmailClientInit(GmailSection)

\* the calls: [client, timeout, sent_after_time, latency, faults, mailbox];
\* calls on a reliable network, calls with failures, calls with one and
\* two failures more on a single mailbox, a call without send time on a
\* mailbox with an old message, a call on a mailbox with two fresh
\* verification messages, calls with a budget one second shorter on a
\* mailbox without a code, calls on a mailbox another client flags a
\* message of, and a call of SectionClient
Call(c, to, T, lat, f, box) ==
    [client |-> c, timeout |-> to, sent_after_time |-> T, latency |-> lat,
     faults |-> f, mailbox |-> box]
Calls ==
    { Call(c, to, T, lat, 0, box) :
        c \in Clients, to \in {ShortTimeout, LoginTimeout}, T \in {0, T0},
        lat \in 0..MaxLatency, box \in Mailboxes }
    \cup { Call(c, ShortTimeout, T0, 0, f, box) :
        c \in Clients, f \in 1..MaxFaults, box \in Mailboxes }
    \cup { Call(GmailClientInit(ConfigFile(FALSE)), ShortTimeout, T0, 0, f, box) :
        f \in {MaxFaults + 1, MaxFaults + 2},
        box \in { <<Msg(ArrivedBefore, TRUE, DateFresh, CodeA, "verification"),
                    Msg(ArrivedBefore, TRUE, DateFresh, Prose, "other")>> } }
    \cup { Call(GmailClientInit(ConfigFile(FALSE)), ShortTimeout, 0, 0, 0, box) :
        box \in { <<Msg(ArrivedLongAgo, TRUE, ArrivedLongAgo, CodeA, "verification"),
                    Msg(ArrivesLater, TRUE, DateFresh, Prose, "other")>> } }
    \cup { Call(GmailClientInit(ConfigFile(FALSE)), ShortTimeout, T0, 0, 0, box) :
        box \in { <<Msg(ArrivedBefore, TRUE, DateFresh, CodeA, "verification"),
                    Msg(ArrivedBefore, TRUE, DateFresh, CodeB, "verification")>> } }
    \cup { Call(GmailClientInit(ConfigFile(FALSE)), ShortTimeout - 1, T0, lat, 0, box) :
        lat \in 0..MaxLatency,
        box \in { <<Msg(ArrivedBefore, TRUE, DateFresh, Prose, "verification"),
                    Msg(ArrivedBefore, TRUE, DateFresh, Prose, "other")>> } }
    \cup { Call(c, ShortTimeout, T0, 0, 0, box) :
        c \in Clients,
        box \in { <<[Msg(ArrivedBefore, TRUE, DateStale, Prose, "other") EXCEPT !.flagged = at],
                    Msg(ArrivedBefore, TRUE, DateFresh, CodeB, "verification")>> :
                  at \in OtherFlagTimes } }
    \cup { Call(SectionClient, LoginTimeout, 0, 0, 0, box) :
        box \in { <<Msg(ArrivedBefore, TRUE, DateFresh, CodeA, "verification"),
                    Msg(ArrivedBefore, TRUE, DateFresh, CodeB, "verification")>> } }

ExtractIdle ==
    /\ epc = "idle"
    /\ message = <<>>
    /\ body = <<>>
    /\ code = NoCode

\* the record of one sub-pass, kept until the next step: the criteria it
\* started from, the mailbox and the time, the refused criteria, the
\* failure, and where it found a code
NoPass ==
    [from |-> 0, at |-> 0, box |-> <<>>, t |-> 0, refuse |-> FALSE,
     f |-> [at |-> 0, kind |-> "none"], found |-> FALSE]

\* what is kept of a sub-pass with a failed search or fetch: the kind of
\* failure, whether another search or candidate could yield a code, whether
\* the sub-pass found a code, and whether it found it at a later criteria
NoErr == [kind |-> "none", some |-> FALSE, found |-> FALSE, later |-> FALSE]

HistInit ==
    [fault |-> FALSE, raised |-> "none", found |-> NoCode, foundMsg |-> 0,
     afterFound |-> FALSE, lastRound |-> -1, logins |-> <<>>, closeFailed |-> "none",
     del |-> "none", flagAt |-> 0, expungeAt |-> 0, lost |-> FALSE, afterLost |-> FALSE,
     connects |-> <<>>,
     ctx |-> NoPass, errPass |-> NoErr,
     wait |-> [time |-> 0, remaining |-> 0, round |-> 0, pending |-> FALSE],
     pass |-> [round |-> 0, sub |-> 0, start |-> 0, end |-> 0],
     prev |-> [round |-> 0, sub |-> 0, start |-> 0, end |-> 0]]

PollInit ==
    /\ ExtractIdle
    /\ LoginIdle
    /\ LogIdle
    /\ ScheduleIdle
    /\ ppc = "call"
    /\ \E c \in Calls :
        /\ client = c.client
        /\ timeout = c.timeout
        /\ sent_after_time = c.sent_after_time
        /\ latency = c.latency
        /\ faults = c.faults
        /\ mailbox = c.mailbox
    /\ now = CallTime
    /\ call_time = CallTime
    /\ start_time = 0
    /\ search_time = 0
    /\ search_attempt = 0
    /\ search_round = 0
    /\ strat = 0
    /\ retry = 0
    /\ auth_retry = 0
    /\ conn = "none"
    /\ alive = FALSE
    /\ verification_code = NoCode
    /\ code_msg = 0
    /\ pollResult = NoCode
    /\ hist = HistInit

argVars == <<client, timeout, sent_after_time, latency, call_time>>

\* the outcomes the environment may give: a failure needs faults > 0
May(outs, good) == IF faults > 0 THEN outs ELSE outs \cap good
Spend(out, good) == IF out \in good THEN faults ELSE faults - 1
otherVars == <<extractVars, loginVars, outerVars>>

Min(a, b) == IF a <= b THEN a ELSE b

\* lines 42-50: the log line reads gmail_config['email']; a KeyError ends the
\* call in the handler of line 289 (HasAddress: the key is there)
HasAddress(c) == "email" \in DOMAIN c.gmail_config

PollEnter ==
    /\ ppc = "call"
    /\ IF HasAddress(client)
       THEN /\ ppc' = "connect"
            /\ hist' = hist
       ELSE /\ ppc' = "done"
            /\ hist' = [hist EXCEPT !.raised = "KeyError"]
    /\ UNCHANGED <<argVars, otherVars, faults, now, start_time, search_time, search_attempt,
                   search_round, strat, retry, auth_retry, conn, alive, mailbox,
                   verification_code, code_msg, pollResult>>

\* a connection loop with one more pass
RetryConnectAgain(r) == r < max_retries

\* line 64: is a failed connection attempt `r` followed by another one
RetryConnect(r) == r < max_retries - 1

\* lines 52-71: one connection attempt
Connect ==
    /\ ppc = "connect"
    /\ \E ok \in May(BOOLEAN, {TRUE}) :
        /\ retry' = retry + 1
        /\ faults' = Spend(ok, {TRUE})
        /\ IF ok
           THEN /\ conn' = "open"
                /\ alive' = TRUE
                /\ ppc' = "login"
                /\ hist' = [hist EXCEPT !.connects = Append(@, [at |-> now, ok |-> TRUE])]
                /\ UNCHANGED now
           ELSE /\ UNCHANGED <<conn, alive>>
                /\ IF RetryConnect(retry)
                   THEN /\ now' = now + ConnectDelay
                        /\ ppc' = "connect"
                        /\ hist' = [hist EXCEPT !.fault = TRUE,
                                                !.connects = Append(@, [at |-> now, ok |-> FALSE])]
                   ELSE /\ now' = now
                        /\ ppc' = "done"
                        /\ hist' = [hist EXCEPT !.fault = TRUE, !.raised = "connect",
                                                !.connects = Append(@, [at |-> now, ok |-> FALSE])]
    /\ UNCHANGED <<argVars, otherVars, start_time, search_time, search_attempt,
                   search_round, strat, auth_retry, mailbox, verification_code,
                   code_msg, pollResult>>

\* the test of line 88 without the look at the error text
RetryLoginAny(a, out) == a < max_auth_retries - 1

\* line 88: is a failed mail.login attempt `a` with error text `out` retried
RetryLogin(a, out) == a < max_auth_retries - 1 /\ out = "SSL"

\* lines 75-108: one mail.login attempt
Login ==
    /\ ppc = "login"
    /\ \E out \in May({"ok", "AUTHENTICATIONFAILED", "SSL"}, {"ok"}) :
        /\ faults' = Spend(out, {"ok"})
        /\ IF out = "ok"
           THEN /\ conn' = "auth"
                /\ ppc' = "select"
                /\ hist' = [hist EXCEPT !.logins = Append(@, out)]
                /\ UNCHANGED <<now, auth_retry>>
           ELSE /\ conn' = conn
                /\ IF RetryLogin(auth_retry, out)
                   THEN /\ now' = now + AuthDelay
                        /\ auth_retry' = auth_retry + 1
                        /\ ppc' = "login"
                        /\ hist' = [hist EXCEPT !.fault = TRUE, !.logins = Append(@, out)]
                   ELSE /\ UNCHANGED <<now, auth_retry>>
                        /\ ppc' = "done"
                        /\ hist' = [hist EXCEPT !.fault = TRUE, !.raised = "login",
                                                !.logins = Append(@, out)]
    /\ UNCHANGED <<argVars, otherVars, start_time, search_time, search_attempt,
                   search_round, strat, retry, alive, mailbox, verification_code,
                   code_msg, pollResult>>

\* lines 113-124: the time the search reaches back to, before strftime cuts
\* it to a day
SearchFrom(T, t) == IF T # 0 THEN T - Guard ELSE t - RecentWindow

\* lines 113-124: the day given to SINCE
SearchDay(T, t) == IF T # 0 THEN Day(T - Guard) ELSE Day(t - RecentWindow)

\* lines 110-135: mail.select("inbox"), search_time, start_time
SelectInbox ==
    /\ ppc = "select"
    /\ \E ok \in May(BOOLEAN, {TRUE}) :
        /\ faults' = Spend(ok, {TRUE})
        /\ IF ok
           THEN /\ conn' = "selected"
                /\ search_time' = SearchDay(sent_after_time, now)
                /\ start_time' = now
                /\ search_attempt' = 0
                /\ ppc' = "loop"
                /\ hist' = hist
           ELSE /\ UNCHANGED <<conn, search_time, start_time, search_attempt>>
                /\ ppc' = "done"
                /\ hist' = [hist EXCEPT !.fault = TRUE, !.raised = "select"]
    /\ UNCHANGED <<argVars, otherVars, now, search_round, strat, retry, auth_retry,
                   alive, mailbox, verification_code, code_msg, pollResult>>

\* the loop test that allows a single round
MayStartRoundOnce(elapsed, limit, attempts) ==
    elapsed < limit /\ attempts < 1

\* line 137: the test of the while loop
MayStartRound(elapsed, limit, attempts) ==
    elapsed < limit /\ attempts < max_attempts

\* lines 137-155: the while test and the start of a round
LoopCheck ==
    /\ ppc = "loop"
    /\ IF MayStartRound(Elapsed, timeout, search_attempt)
       THEN /\ search_attempt' = search_attempt + 1
            /\ search_round' = 0
            /\ strat' = 1
            /\ ppc' = "scan"
            /\ hist' = [hist EXCEPT !.lastRound = Elapsed,
                                    !.afterFound = @ \/ hist.found # NoCode,
                                    !.wait.pending = FALSE]
       ELSE /\ ppc' = "closeEnd"
            /\ UNCHANGED <<search_attempt, search_round, strat, hist>>
    /\ UNCHANGED <<argVars, otherVars, faults, now, start_time, search_time, retry, auth_retry,
                   conn, alive, mailbox, verification_code, code_msg, pollResult>>

\* what the environment does to one sub-pass: nothing, or one failure at
\* criteria `at`: "error" (the search raises), "lost" (the session is lost,
\* this search and every later command raise), "fetch" (the fetch of the
\* newest candidate of this criteria fails)
NoFault == [at |-> 0, kind |-> "none"]
\* the criteria a failure is tried at: the first one and the well-formed ones
FaultAt == {1} \cup ((1..Len(search_criteria)) \ Doubtful)
SubPassFaults ==
    {NoFault} \cup
    (IF faults > 0 /\ alive /\ conn = "selected"
     THEN [at : FaultAt, kind : {"error", "lost", "fetch"}]
     ELSE {})

Newest(ids) == IF ids = {} THEN {} ELSE {CHOOSE x \in ids : \A y \in ids : y <= x}

\* a failed search that ends the sub-pass
AfterSearchErrorStop(k) == Len(search_criteria) + 1

\* lines 243-245: except Exception: continue: the criteria tried after a
\* search of criteria k that failed
AfterSearchError(k) == k + 1

\* lines 194-245: for i, criteria in enumerate(search_criteria), from criteria
\* k on, up to the first candidate that yields a code.  box is the mailbox,
\* up says whether the session still answers, refuse whether the server
\* refuses the doubtful criteria, f is the failure of this sub-pass.
\* any: a search was issued; tried: a candidate was examined; code/msg: the
\* locals verification_code and msg_id after the loop
RECURSIVE RunCriteria(_, _, _, _, _, _, _, _)
RunCriteria(k, box, up, T, t, day, refuse, f) ==
    IF k > Len(search_criteria)
    THEN [code |-> NoCode, msg |-> 0, strat |-> k, box |-> box, up |-> up, any |-> FALSE,
          tried |-> FALSE]
    ELSE IF ~up \/ (refuse /\ k \in Doubtful) \/ (f.at = k /\ f.kind \in {"error", "lost"})
         THEN LET r == RunCriteria(AfterSearchError(k), box,
                                   up /\ ~(f.at = k /\ f.kind = "lost"),
                                   T, t, day, refuse, f)
              IN  [r EXCEPT !.any = TRUE]
         ELSE LET ids == SearchIds(box, k, t, day)
                  bad == IF f.at = k /\ f.kind = "fetch" THEN Newest(ids) ELSE {}
                  r == Examine(ids, box, bad, T)
                  seen == MarkSeen(box, r.fetched)
              IN  IF r.code # NoCode
                  THEN [code |-> r.code, msg |-> r.msg, strat |-> k, box |-> seen,
                        up |-> up, any |-> TRUE, tried |-> TRUE]
                  ELSE LET n == RunCriteria(k + 1, seen, up, T, t, day, refuse, f)
                       IN  [n EXCEPT !.any = TRUE, !.tried = @ \/ ids # {}]

\* c is the record of a sub-pass: the mailbox, the time, the refused
\* criteria and the failure.  The search of criteria j was answered
AnsweredIn(c, j) ==
    /\ ~(c.refuse /\ j \in Doubtful)
    /\ ~(c.f.at = j /\ c.f.kind \in {"error", "lost"})

\* the candidates of criteria j
CandidatesIn(c, j) == SearchIds(c.box, j, c.t, search_time)

\* candidate id of criteria j is fetched, passes the time filter and yields
\* a code
YieldsIn(c, id, j) ==
    /\ extract_code_from_email(c.box[id], sent_after_time) # NoCode
    /\ ~(c.f.at = j /\ c.f.kind = "fetch" /\ id \in Newest(CandidatesIn(c, j)))

\* some search of the sub-pass that was answered lists a candidate that
\* yields a code
SomeYields(c) ==
    \E j \in c.from..Len(search_criteria) :
        /\ AnsweredIn(c, j)
        /\ \E id \in CandidatesIn(c, j) : YieldsIn(c, id, j)

\* lines 158-250: one sub-pass (from criteria strat on), then the 1 s delay
\* before the second sub-pass or the end of the round
SubPass ==
    /\ ppc = "scan"
    /\ \E refuse \in BOOLEAN, f \in SubPassFaults :
        LET t == IF strat = 1 THEN now + latency ELSE now
        IN  \E r \in {RunCriteria(strat, mailbox, alive /\ conn = "selected", sent_after_time,
                                  t, search_time, refuse, f)} :
            /\ f.at # 0 => f.at >= strat
            /\ mailbox' = r.box
            /\ alive' = (alive /\ f.kind # "lost")
            /\ faults' = IF f.at # 0 THEN faults - 1 ELSE faults
            /\ hist' = [hist EXCEPT
                          !.fault = @ \/ f.at # 0,
                          !.lost = @ \/ f.kind = "lost",
                          !.afterLost = @ \/ (hist.lost /\ r.any),
                          !.afterFound = @ \/ (hist.found # NoCode /\ r.any),
                          !.found = IF @ = NoCode THEN r.code ELSE @,
                          !.foundMsg = IF hist.found = NoCode THEN r.msg ELSE @,
                          !.ctx = IF r.code # NoCode
                                  THEN [from |-> strat, at |-> r.strat, box |-> mailbox,
                                        t |-> t, refuse |-> refuse, f |-> f, found |-> TRUE]
                                  ELSE NoPass,
                          !.errPass = IF f.kind \in {"error", "fetch"}
                                      THEN [kind |-> f.kind,
                                            some |-> SomeYields(
                                                [from |-> strat, at |-> r.strat,
                                                 box |-> mailbox, t |-> t, refuse |-> refuse,
                                                 f |-> f, found |-> r.code # NoCode]),
                                            found |-> r.code # NoCode,
                                            later |-> r.strat > f.at]
                                      ELSE NoErr,
                          !.pass = IF strat = 1
                                   THEN [round |-> search_attempt, sub |-> search_round,
                                         start |-> now, end |-> t]
                                   ELSE [@ EXCEPT !.end = t],
                          !.prev = IF strat = 1 THEN hist.pass ELSE @]
            /\ IF r.code # NoCode
               THEN /\ verification_code' = r.code
                    /\ code_msg' = r.msg
                    /\ strat' = r.strat
                    /\ ppc' = "found"
                    /\ now' = t
                    /\ search_round' = search_round
               ELSE /\ verification_code' = IF r.tried THEN NoCode ELSE verification_code
                    /\ code_msg' = IF r.tried THEN 0 ELSE code_msg
                    /\ strat' = 1
                    /\ IF search_round = 0
                       THEN /\ search_round' = 1
                            /\ now' = t + SubPassDelay
                            /\ ppc' = "scan"
                       ELSE /\ search_round' = search_round
                            /\ now' = t
                            /\ ppc' = "backoff"
    /\ UNCHANGED <<argVars, otherVars, start_time, search_time, search_attempt,
                   retry, auth_retry, conn, pollResult>>

\* a deletion whose failure ends the call
AfterDeleteRaise(out) == IF out \in {"none", "ok"} THEN "closeFound" ELSE "done"

\* lines 222-233 and 327-343: every failure of the deletion is caught and
\* logged; the flow goes on with close and logout whatever the outcome
AfterDelete(out) == "closeFound"

\* lines 216-233 and _delete_email_safely: the optional deletion of the
\* message: the wait, then store and expunge one after the other
DeleteAfterFound ==
    /\ ppc = "found"
    /\ IF DeleteAfterUse(client)
       THEN /\ now' = now + DeleteWait(client)
            /\ \E out \in (IF alive /\ conn = "selected"
                           THEN May({"ok", "store fails", "expunge fails"}, {"ok"})
                           ELSE {"raises"}) :
                /\ mailbox' = CASE out = "ok" -> Expunge(Flag(mailbox, code_msg), now')
                                [] out = "expunge fails" -> Flag(mailbox, code_msg)
                                [] OTHER -> mailbox
                /\ faults' = Spend(out, {"ok", "raises"})
                /\ hist' = [hist EXCEPT !.fault = @ \/ out \notin {"ok", "raises"},
                                        !.ctx = NoPass, !.errPass = NoErr,
                                        !.del = out,
                                        !.flagAt = IF out \in {"ok", "expunge fails"} THEN now' ELSE @,
                                        !.expungeAt = IF out = "ok" THEN now' ELSE @]
                /\ ppc' = AfterDelete(out)
       ELSE /\ ppc' = AfterDelete("none")
            /\ hist' = [hist EXCEPT !.ctx = NoPass, !.errPass = NoErr]
            /\ UNCHANGED <<now, mailbox, faults>>
    /\ UNCHANGED <<argVars, otherVars, start_time, search_time, search_attempt,
                   search_round, strat, retry, auth_retry, conn, alive,
                   verification_code, code_msg, pollResult>>

\* the outcomes of mail.close() followed by mail.logout()
CloseOutcomes ==
    IF alive /\ conn = "selected"
    THEN May({"ok", "close fails", "logout fails"}, {"ok"})
    ELSE {"raises"}

\* the session after mail.close(); mail.logout() with the given outcome
ConnAfterClose(out) ==
    CASE out = "ok" -> "logout"
      [] out = "logout fails" -> "closed"
      [] OTHER -> conn

\* the mailbox after mail.close() with the given outcome: CLOSE expunges
MailboxAfterClose(out) ==
    IF out \in {"ok", "logout fails"} THEN Expunge(mailbox, now) ELSE mailbox

\* lines 235-237: close, logout and return of the code; an exception of
\* either call is caught by the handler of line 243, which goes on with the
\* next criteria
CloseFound ==
    /\ ppc = "closeFound"
    /\ \E out \in CloseOutcomes :
        /\ conn' = ConnAfterClose(out)
        /\ mailbox' = MailboxAfterClose(out)
        /\ faults' = Spend(out, {"ok", "raises"})
        /\ IF out = "ok"
           THEN /\ ppc' = "done"
                /\ pollResult' = verification_code
                /\ UNCHANGED <<alive, strat, hist>>
           ELSE /\ ppc' = "scan"
                /\ strat' = strat + 1
                /\ alive' = FALSE
                /\ pollResult' = pollResult
                /\ hist' = [hist EXCEPT !.fault = TRUE, !.closeFailed = "found"]
    /\ UNCHANGED <<argVars, otherVars, now, start_time, search_time, search_attempt,
                   search_round, retry, auth_retry, verification_code, code_msg>>

\* the test of line 254 asking for twice the remaining time
MayWaitEager(remaining, attempts) ==
    remaining > 2 * MinRemaining /\ attempts < max_attempts

\* line 254: is there time and a round left for another search
MayWait(remaining, attempts) ==
    remaining > MinRemaining /\ attempts < max_attempts

\* a wait for all of the remaining time but the margin
BackoffWaitUncapped(remaining) == remaining - BackoffMargin

\* line 255: wait_time
BackoffWait(remaining) == Min(MaxBackoff, remaining - BackoffMargin)

\* lines 252-264: wait before the next round, or leave the loop
Backoff ==
    /\ ppc = "backoff"
    /\ LET remaining == timeout - Elapsed
       IN  IF MayWait(remaining, search_attempt)
           THEN /\ now' = now + BackoffWait(remaining)
                /\ ppc' = "loop"
                /\ hist' = [hist EXCEPT !.errPass = NoErr,
                                        !.wait = [time |-> BackoffWait(remaining),
                                                  remaining |-> remaining,
                                                  round |-> search_attempt,
                                                  pending |-> TRUE]]
           ELSE /\ now' = now
                /\ ppc' = "closeEnd"
                /\ hist' = [hist EXCEPT !.errPass = NoErr]
    /\ UNCHANGED <<argVars, otherVars, faults, start_time, search_time, search_attempt,
                   search_round, strat, retry, auth_retry, conn, alive, mailbox,
                   verification_code, code_msg, pollResult>>

\* lines 266-287 (and 289-314 when close or logout raises): return None
CloseEnd ==
    /\ ppc = "closeEnd"
    /\ \E out \in CloseOutcomes :
        /\ conn' = ConnAfterClose(out)
        /\ mailbox' = MailboxAfterClose(out)
        /\ faults' = Spend(out, {"ok", "raises"})
        /\ alive' = (alive /\ out = "ok")
        /\ hist' = [hist EXCEPT !.fault = @ \/ out # "ok",
                                !.raised = IF out = "ok" THEN @ ELSE "close",
                                !.closeFailed = IF out # "ok" /\ @ = "none" THEN "end" ELSE @]
    /\ ppc' = "done"
    /\ pollResult' = NoCode
    /\ UNCHANGED <<argVars, otherVars, now, start_time, search_time, search_attempt,
                   search_round, strat, retry, auth_retry, verification_code, code_msg>>

PollNext ==
    \/ PollEnter
    \/ Connect
    \/ Login
    \/ SelectInbox
    \/ LoopCheck
    \/ SubPass
    \/ DeleteAfterFound
    \/ CloseFound
    \/ Backoff
    \/ CloseEnd

SpecPoll == PollInit /\ [][PollNext]_vars

-----------------------------------------------------------------------------
(***************************************************************************)
(* Properties of the mailbox poller.                                       *)
(***************************************************************************)

\* the call has returned after a search in which nothing failed
CleanReturn == ppc = "done" /\ ~hist.fault /\ hist.raised = "none"

\* message 1 holds code A and is dated before the send time, message 2 holds
\* code B and is dated after it
OldAndNew ==
    /\ mailbox[1].body = CodeA /\ mailbox[1].dated /\ mailbox[1].date < sent_after_time
    /\ mailbox[2].body = CodeB /\ mailbox[2].dated /\ mailbox[2].date > sent_after_time

\* C1: a call with a send time T never returns a code of a message whose Date
\* is earlier than T - Guard, whatever the mailbox, the arrival order and the
\* failures; with an old message (code A, dated before T) and a new message
\* (code B, dated after T) it never returns A, and returns B when nothing fails.
C1_NoStaleCode ==
    (ppc = "done" /\ sent_after_time # 0) =>
        /\ pollResult # NoCode =>
            /\ code_msg \in DOMAIN mailbox
            /\ pollResult = BodyCode[mailbox[code_msg].body]
            /\ mailbox[code_msg].dated =>
                  mailbox[code_msg].date >= sent_after_time - Guard
        /\ OldAndNew =>
            /\ pollResult # CodeA
            /\ CleanReturn => pollResult = CodeB

\* C1 witness: the old message was a candidate (it was fetched) and was passed
\* over, the code of the new message came back
C1_Witness ==
    /\ ppc = "done"
    /\ sent_after_time # 0
    /\ OldAndNew
    /\ mailbox[1].date = DateStale
    /\ mailbox[1].seen
    /\ pollResult = CodeB

\* the matching message of the happy path: a verification message with a
\* 6-digit code, dated after the send time, that arrives ArrivalDelay seconds
\* after the call was entered, the other message yielding no code
ArrivesDuringCall ==
    /\ sent_after_time # 0
    /\ mailbox[2].kind = "verification"
    /\ mailbox[2].body = CodeB
    /\ mailbox[2].date > sent_after_time
    /\ mailbox[2].arrive = call_time + ArrivalDelay
    /\ extract_code_from_email(mailbox[1], sent_after_time) = NoCode

\* C4: when the matching message arrives a few seconds after the call was
\* entered and nothing fails, the call returns that message's code and has
\* started at most two rounds (for the timeout of 60 s and the short one).
C4_HappyPath ==
    (CleanReturn /\ ArrivesDuringCall) =>
        /\ pollResult = CodeB
        /\ search_attempt <= 2

\* C4 witness: timeout 60 s, the message was not there in the first round and
\* its code came back from the second
C4_Witness ==
    /\ CleanReturn
    /\ ArrivesDuringCall
    /\ timeout = LoginTimeout
    /\ latency = 0
    /\ search_attempt = 2
    /\ pollResult = CodeB

\* what one round costs: two sub-passes, the delay between them, one backoff
RoundOverhead == 2 * latency + SubPassDelay + MaxBackoff

\* the call has returned None after a search that found no code and met no failure
CleanTimeout == CleanReturn /\ search_attempt >= 1 /\ hist.found = NoCode /\ pollResult = NoCode

\* C5 as stated: with no qualifying message, None is returned only once about
\* timeout seconds have elapsed since the search started, within one round's
\* overhead: not earlier and not much later.
C5_ReturnsAtTimeout ==
    CleanTimeout =>
        /\ Elapsed >= timeout - RoundOverhead
        /\ Elapsed <= timeout + RoundOverhead

\* C5 amended: a call that searched and returns None has either started all
\* max_attempts rounds or has at most MinRemaining seconds of its timeout
\* left, whichever comes first; its last round started before the timeout,
\* and without a qualifying message it ends before timeout plus the time of
\* the two sub-passes of one round.
C5_GivesUp ==
    (ppc = "done" /\ search_attempt >= 1 /\ pollResult = NoCode) =>
        /\ search_attempt = max_attempts \/ timeout - Elapsed <= MinRemaining
        /\ hist.lastRound < timeout
        /\ hist.found = NoCode => Elapsed < timeout + 2 * latency + SubPassDelay

\* C5 witness: timeout 60 s, five rounds were run and None came back well
\* before the timeout
C5_Witness ==
    /\ CleanTimeout
    /\ timeout = LoginTimeout
    /\ search_attempt = max_attempts
    /\ Elapsed < timeout - RoundOverhead

\* C6: no round starts once the timeout has elapsed or max_attempts rounds
\* were started; once a candidate has yielded a code no further search or
\* round is performed and that code is the value the call returns.
C6_StopsAtOnce ==
    /\ hist.lastRound < timeout
    /\ search_attempt <= max_attempts
    /\ ~hist.afterFound
    /\ (ppc = "done" /\ hist.found # NoCode) => pollResult = hist.found

\* C7: the guard is part of the age test: with a send time T, a message that
\* was in the mailbox when the call was entered, is dated T - Guard or later
\* and holds a valid code is accepted, so a call that meets no failure
\* returns a code.
C7_GuardOnFilter ==
    (CleanReturn /\ sent_after_time # 0) =>
        \A id \in DOMAIN mailbox :
            ( /\ mailbox[id].arrive <= call_time
              /\ mailbox[id].dated
              /\ mailbox[id].date >= sent_after_time - Guard
              /\ BodyCode[mailbox[id].body] # NoCode )
            => pollResult # NoCode

\* C16: in one call a mail.login attempt that failed with a credential
\* rejection (AUTHENTICATIONFAILED, no 'SSL' in the text) is the last login
\* attempt; a second attempt is made only after a failure with an SSL text,
\* and there are at most 2 attempts.
C16_LoginRetry ==
    /\ Len(hist.logins) <= 2
    /\ \A i \in DOMAIN hist.logins :
          hist.logins[i] = "AUTHENTICATIONFAILED" => (i = Len(hist.logins) /\ ppc = "done")
    /\ Len(hist.logins) = 2 => hist.logins[1] = "SSL"

\* C16 witness: the first attempt failed with an SSL text and was retried,
\* the second was rejected and the call ended
C16_Witness ==
    /\ ppc = "done"
    /\ hist.logins = <<"SSL", "AUTHENTICATIONFAILED">>
    /\ hist.raised = "login"

\* C17: when the call has returned and a connection was opened, logout was
\* issued on it (conn is "logout", or "closed" when the logout itself failed).
C17_LogoutOnEveryExit ==
    (ppc = "done" /\ conn # "none") => conn \in {"logout", "closed"}

\* C20: a failure of close/logout leaves the result as it was: after a code
\* was extracted that code is returned and no search follows; after an
\* unsuccessful search None is returned.
C20_CloseFailureHarmless ==
    ppc = "done" =>
        /\ hist.closeFailed = "found" => (pollResult = hist.found /\ ~hist.afterFound)
        /\ hist.closeFailed = "end" => pollResult = NoCode

C22_FlagWaitExpunge ==
    /\ hist.expungeAt # 0 =>
          (hist.flagAt # 0 /\ hist.expungeAt >= hist.flagAt + DeleteWait(client))
    /\ (ppc = "done" /\ hist.del = "expunge fails") =>
          (mailbox[code_msg].deleted /\ ~mailbox[code_msg].expunged)

\* C23: once the session was lost in a round no search is issued on it any
\* more: the call goes to its end without a further criteria, sub-pass,
\* wait or round.
C23_StopsWhenLost ==
    hist.lost => (~hist.afterLost /\ ppc \in {"closeEnd", "done"})

\* C24: at most 3 connection attempts are made, a successful one is the
\* last, consecutive attempts are 2 seconds apart, and after a third failure
\* the call has returned None with no login attempt and no search round.
C24_ConnectRetry ==
    /\ Len(hist.connects) <= 3
    /\ \A i \in DOMAIN hist.connects :
          /\ hist.connects[i].ok => i = Len(hist.connects)
          /\ i > 1 => hist.connects[i].at = hist.connects[i - 1].at + 2
    /\ (Len(hist.connects) = 3 /\ ~hist.connects[3].ok) =>
          /\ ppc = "done"
          /\ pollResult = NoCode
          /\ hist.logins = <<>>
          /\ search_attempt = 0
          /\ conn = "none"

\* C24 witness: three attempts failed and the call has returned None
C24_Witness ==
    /\ ppc = "done"
    /\ Len(hist.connects) = 3
    /\ \A i \in 1..3 : ~hist.connects[i].ok
    /\ hist.raised = "connect"
    /\ pollResult = NoCode

\* C26: a call without a send time returns no code of a message that is
\* older than the recent window of 5 minutes before the call.
C26_RecentWindowOnly ==
    (ppc = "done" /\ sent_after_time = 0 /\ pollResult # NoCode /\ code_msg \in DOMAIN mailbox)
    => /\ mailbox[code_msg].arrive >= call_time - 5 * 60
       /\ mailbox[code_msg].dated => mailbox[code_msg].date >= call_time - 5 * 60

\* the same for the sub-pass that found the code
Answered(j) == AnsweredIn(hist.ctx, j)
CandidatesOf(j) == CandidatesIn(hist.ctx, j)
Yields(id, j) == YieldsIn(hist.ctx, id, j)

\* C31: a round that finds no code runs two sub-passes, the second one
\* SubPassDelay seconds after the first; the code comes from the first
\* candidate, criteria in list order and ids from the highest down, that
\* passes the time filter and yields a code, and from that message alone
C31_SearchOrder ==
    /\ ppc = "backoff" => hist.pass.sub = 1 /\ hist.pass.round = search_attempt
    /\ hist.pass.sub = 1 =>
           /\ hist.prev.sub = 0
           /\ hist.prev.round = hist.pass.round
           /\ hist.pass.start = hist.prev.end + SubPassDelay
    /\ ppc = "found" => hist.ctx.found
    /\ hist.ctx.found =>
           /\ \A j \in hist.ctx.from..(hist.ctx.at - 1) :
                  Answered(j) => \A id \in CandidatesOf(j) : ~Yields(id, j)
           /\ hist.foundMsg \in CandidatesOf(hist.ctx.at)
           /\ Yields(hist.foundMsg, hist.ctx.at)
           /\ \A id \in CandidatesOf(hist.ctx.at) : id > hist.foundMsg => ~Yields(id, hist.ctx.at)
           /\ hist.found = extract_code_from_email(hist.ctx.box[hist.foundMsg], sent_after_time)
    /\ pollResult # NoCode => pollResult = hist.found /\ code_msg = hist.foundMsg

\* C31 witness: a sub-pass found the code in the newer of two candidates
\* of one search that both yield a code
C31_Witness ==
    /\ ppc = "found"
    /\ verification_code = CodeB
    /\ Cardinality({id \in CandidatesOf(hist.ctx.at) : Yields(id, hist.ctx.at)}) = 2

\* C32: a search that raises, or a candidate whose fetch fails, is skipped:
\* when another search of the same sub-pass, or another candidate, yields a
\* code, that sub-pass finds it
C32_ErrorSkipsOne ==
    (hist.errPass.kind \in {"error", "fetch"} /\ hist.errPass.some) => hist.errPass.found

\* C32 witness: a search raised and a later criteria of the same sub-pass
\* found the code
C32_Witness ==
    /\ ppc = "found"
    /\ verification_code # NoCode
    /\ hist.errPass.kind = "error"
    /\ hist.errPass.found
    /\ hist.errPass.later
    /\ hist.ctx.f.at \in hist.ctx.from..(hist.ctx.at - 1)
    /\ \E id \in CandidatesOf(hist.ctx.f.at) : Yields(id, hist.ctx.at)

\* a fetch failed and the same sub-pass found the code in another fetch
C32_FetchSkipped ==
    /\ ppc = "found"
    /\ verification_code # NoCode
    /\ hist.errPass.kind = "fetch"
    /\ hist.errPass.found
    /\ CandidatesOf(hist.ctx.f.at) # {}

\* C33: the wait between two rounds is at most 5 seconds and at most the
\* time that remains of the budget, and every wait is followed by a round
C33_BackoffBounded ==
    /\ hist.wait.time <= 5
    /\ hist.wait.time <= hist.wait.remaining
    /\ hist.wait.time >= 0
    /\ ppc \in {"closeEnd", "done"} => ~hist.wait.pending

\* C33 witness: a call waited the full 5 seconds, ran another round and
\* returned
C33_Witness ==
    /\ ppc = "done"
    /\ hist.wait.time = 5
    /\ search_attempt > hist.wait.round

\* the budget left fewer than 5 seconds more than the margin, and the wait
\* was shortened
C33_ShortWait ==
    /\ hist.wait.round > 0
    /\ hist.wait.time < 5

\* C36: a call with a send time returns a code only from a message whose
\* send time is known and is not before that time
C36_KnownSendTime ==
    (ppc = "done" /\ sent_after_time # 0 /\ pollResult # NoCode) =>
        /\ mailbox[code_msg].dated
        /\ mailbox[code_msg].date >= sent_after_time

\* C37: the only message a call removes is the one the code came from, and
\* a call with deletion disabled removes none
C37_RemovesOnlyCodeMessage ==
    ppc = "done" =>
        \A id \in DOMAIN mailbox :
            mailbox[id].expunged =>
                /\ DeleteAfterUse(client)
                /\ hist.found # NoCode
                /\ id = hist.foundMsg

\* a code is returned by the second sub-pass of a round
C31_SecondPass ==
    /\ ppc = "done"
    /\ pollResult # NoCode
    /\ hist.pass.sub = 1

-----------------------------------------------------------------------------
(***************************************************************************)
(* The login flow: MTeamLogin.login_to_mteam from the click on the login   *)
(* button on, and MTeamLogin.handle_email_verification.                    *)
(* A page is described by what the probes of the flow can observe:         *)
(*   err    an error element with text is on the page                      *)
(*   form   the fields #username and #password are on the page             *)
(*   url    the keyword classes the URL contains: "login", "verify" (one   *)
(*          of verify, 2fa, verification, email), "success" (one of        *)
(*          index, home, main, dashboard, user, member, browse, torrents)  *)
(*   title  the keyword classes the title contains: "login", "verify",     *)
(*          "other" (any other text); {} is the empty title                *)
(*   velem  a verification element: "absent", "shown", or "stale" (it is   *)
(*          found and is_displayed() raises)                               *)
(*   selem  a logout link or a user element is on the page                 *)
(*   big    the page source is longer than 5000 characters                 *)
(***************************************************************************)
PageWait == 3
ScrollWait == 1
ButtonWait == 10
RetryWait == 5
ResultWait == 5
outer_attempts == 5

Titles == { {}, {"login"}, {"verify"}, {"other"}, {"login", "verify"} }
Pages ==
    [err : BOOLEAN, form : BOOLEAN, url : SUBSET {"login", "verify", "success"},
     title : Titles, velem : {"absent", "shown", "stale"}, selem : BOOLEAN, big : BOOLEAN]

\* lines 476-531: _is_email_verification_page; an exception of a probe is
\* caught at line 529 and the answer is False
is_email_verification_page(p) ==
    IF "verify" \in p.url THEN TRUE
    ELSE IF "verify" \in p.title THEN TRUE
    ELSE IF p.velem = "shown" THEN TRUE
    ELSE FALSE

\* lines 801-860: is_login_successful
is_login_successful(p) ==
    IF "success" \in p.url THEN TRUE
    ELSE IF "login" \notin p.title /\ p.title # {} THEN TRUE
    ELSE IF p.selem THEN TRUE
    ELSE IF "login" \notin p.url /\ p.big THEN TRUE
    ELSE FALSE

\* the classification with the success test ahead of the verification test
ClassificationSuccessFirst(p) ==
    IF p.err THEN "error"
    ELSE IF is_login_successful(p) THEN "success"
    ELSE IF is_email_verification_page(p) THEN "verification"
    ELSE IF p.form /\ "login" \in p.url THEN "rejected"
    ELSE "indeterminate"

\* lines 437-470: the order in which login_to_mteam reads the page
Classification(p) ==
    IF p.err THEN "error"
    ELSE IF is_email_verification_page(p) THEN "verification"
    ELSE IF is_login_successful(p) THEN "success"
    ELSE IF p.form /\ "login" \in p.url THEN "rejected"
    ELSE "indeterminate"

\* what a call get_verification_code(timeout, T) of client c entered at time
\* t can return: None when the address is missing (the KeyError of PollEnter),
\* else None or the code of a message that is there before the call ends and
\* passes the age test
PollReturn(c, box, to, T, t) ==
    IF ~HasAddress(c)
    THEN {NoCode}
    ELSE {NoCode} \cup
         { extract_code_from_email(box[id], T) : id \in { i \in DOMAIN box : box[i].arrive <= t + to } }

\* sample pages
PlainPage ==
    [err |-> FALSE, form |-> FALSE, url |-> {"login"}, title |-> {"login"},
     velem |-> "absent", selem |-> FALSE, big |-> FALSE]
VerificationPage == [PlainPage EXCEPT !.velem = "shown"]
SuccessPage == [PlainPage EXCEPT !.url = {"success"}, !.title = {"other"}]
ErrorPage == [PlainPage EXCEPT !.err = TRUE, !.form = TRUE]
\* how a call get_verification_code of the verification flow ends: its
\* result, the reason, and the time it took.  Without an address the KeyError
\* of PollEnter ends it at once; a rejected mailbox login (gmail_client.py
\* lines 100-108) and any other error are caught at gmail_client.py line 289
\* and give None; a search that finds nothing lasts until the timeout; a code
\* is one of PollReturn, found in the first round
PollEnds(c, box, to, T, t) ==
    IF ~HasAddress(c)
    THEN {[result |-> NoCode, why |-> "KeyError", took |-> 0]}
    ELSE {[result |-> NoCode, why |-> "not found", took |-> to],
          [result |-> NoCode, why |-> "login rejected", took |-> 0],
          [result |-> NoCode, why |-> "error", took |-> 0]}
         \cup { [result |-> r, why |-> "found", took |-> 0] :
                    r \in PollReturn(c, box, to, T, t) \ {NoCode} }

\* lines 453-470: what login_to_mteam returns for a page of class c that does
\* not start the verification flow
Outcome(c) == IF c = "success" THEN "True" ELSE "False"

\* line 743: for attempt in range(5): is there a pass after pass `a`
MorePassesSix(a) == a + 1 < outer_attempts + 1
MorePasses(a) == a + 1 < outer_attempts

\* line 752: if not verification_code: return False
HasCodeAlways(v) == TRUE
HasCode(v) == v # NoCode

\* the pages the site may show after the code was submitted
ResultPages ==
    {PlainPage, VerificationPage, SuccessPage, ErrorPage, [ErrorPage EXCEPT !.selem = TRUE]}

\* the login run starts so that a send button that is enabled is clicked at T0
LoginStart == T0 - PageWait - ScrollWait

LHistInit ==
    [class |-> "none", shown |-> <<>>, email |-> "", sent_at |-> 0, calls |-> <<>>,
     typed |-> NoCode, submitted |-> FALSE, stop |-> "none",
     starts |-> 0, gets |-> 0, creds |-> FALSE, lookups |-> 0, absent |-> "none",
     clicked |-> "none"]

(***************************************************************************)
(* The runs of MTeamLogin.run: the configuration, the page the site shows  *)
(* after the credentials were submitted, and how many failures the browser *)
(* driver may produce.                                                     *)
(***************************************************************************)
MaxDriverFaults == 3
nav_retries == 3
NavWait == 5
NavRetryWait == 3

\* a configuration file whose gmail section holds a gmail section of its own:
\* the client of line 739 finds its address only with such a file
NestedConfig ==
    [mteam |-> MTeamSection,
     gmail |-> [email |-> "user@gmail.com", password |-> "app-password", method |-> "imap",
                gmail |-> GmailSection]]

SamplePages == {VerificationPage, SuccessPage, ErrorPage}

Run(c, p, f) == [config |-> c, page |-> p, faults |-> f]
Runs ==
    { Run(c, p, 0) : c \in {ConfigFile(TRUE), ConfigFile(FALSE)}, p \in Pages }
    \cup { Run(NestedConfig, p, 0) : p \in {VerificationPage, [VerificationPage EXCEPT !.selem = TRUE]} }
    \cup { Run(ConfigFile(FALSE), p, f) : p \in SamplePages, f \in 1..MaxDriverFaults }

\* the run starts so that a navigation that succeeds at once reaches the
\* click on the login button at LoginStart
RunStart == LoginStart - NavWait

LoginInit ==
    /\ ExtractIdle
    /\ LogIdle
    /\ ScheduleIdle
    /\ ppc = "idle"
    /\ client = [config |-> <<>>, gmail_config |-> <<>>]
    /\ timeout = 0
    /\ sent_after_time = 0
    /\ now = RunStart
    /\ latency = 0
    /\ call_time = 0
    /\ start_time = 0
    /\ search_time = 0
    /\ search_attempt = 0
    /\ search_round = 0
    /\ strat = 0
    /\ retry = 0
    /\ auth_retry = 0
    /\ conn = "none"
    /\ alive = FALSE
    /\ mailbox = <<>>
    /\ verification_code = NoCode
    /\ code_msg = 0
    /\ pollResult = NoCode
    /\ hist = <<>>
    /\ lpc = "start"
    /\ \E r \in Runs :
        /\ config = r.config
        /\ page = r.page
        /\ faults = r.faults
    /\ browser = [driver |-> 0, sessions |-> <<>>]
    /\ runResult = "pending"
    /\ attempt = 0
    /\ loginResult = "pending"
    /\ lhist = LHistInit

\* the variables of the poller that the login flow does not touch
pollLocals == <<ppc, latency, call_time, start_time, search_time, search_attempt,
                search_round, strat, retry, auth_retry, conn, alive, faults, code_msg, hist>>

\* the poller variables no step of the browser touches
pollQuiet == <<ppc, latency, call_time, start_time, search_time, search_attempt,
               search_round, strat, retry, auth_retry, conn, alive, code_msg, hist,
               client, timeout, sent_after_time, mailbox, verification_code, pollResult>>

\* the outcomes the browser driver may give with `budget` failures left
Allowed(outs, good, budget) == IF budget > 0 THEN outs ELSE outs \cap good
Cost(out, good) == IF out \in good THEN 0 ELSE 1

\* lines 141-252: init_driver.  "missing": a binary is not there
\* (FileNotFoundError, line 204 or 212); "start fails": webdriver.Chrome
\* raises (line 226); "setup fails": the browser was started and a later
\* command of lines 232-234 raises, so line 252 re-raises and the started
\* session is not handed to the caller
DriverOutcomes == {"ok", "missing", "start fails", "setup fails"}
init_driver(b, out) ==
    IF out \in {"ok", "setup fails"}
    THEN [b EXCEPT !.sessions = Append(@, [open |-> TRUE, quit_called |-> FALSE])]
    ELSE b

\* driver.quit() on session id; when it raises the session may stay open
QuitOutcomes == {"ok", "raises"}
Quit(b, id, out) ==
    [b EXCEPT !.sessions[id] = [open |-> @.open /\ out # "ok", quit_called |-> TRUE]]

\* a start that is tried again after it failed
AfterStartRetry(out) == IF out = "ok" THEN "navigate" ELSE "start"

\* lines 262 and 472-474: where login_to_mteam goes after init_driver: on
\* to the navigation, or to its end when init_driver raised
AfterStart(out) == IF out = "ok" THEN "navigate" ELSE "done"

\* line 262: self.driver = self.init_driver(); an exception is caught at
\* line 472 and login_to_mteam returns False
StartDriver ==
    /\ lpc = "start"
    /\ \E out \in May(DriverOutcomes, {"ok"}) :
        LET b == init_driver(browser, out)
        IN  /\ faults' = Spend(out, {"ok"})
            /\ lpc' = AfterStart(out)
            /\ IF out = "ok"
               THEN /\ browser' = [b EXCEPT !.driver = Len(b.sessions)]
                    /\ lhist' = [lhist EXCEPT !.starts = @ + 1]
                    /\ UNCHANGED loginResult
               ELSE /\ browser' = b
                    /\ loginResult' = "False"
                    /\ lhist' = [lhist EXCEPT !.stop = "driver", !.starts = @ + 1]
    /\ attempt' = 0
    /\ UNCHANGED <<extractVars, outerVars, pollQuiet, now, config, page, runResult>>

\* lines 267-299: one pass of the navigation loop.  "error": driver.get or
\* the URL test fails; "disconnected": it fails with a lost browser
\* connection, then the old session is quit (errors ignored) and a new one
\* is started before the next pass
Navigate ==
    /\ lpc = "navigate"
    /\ \E out \in May({"ok", "error", "disconnected"}, {"ok"}) :
        LET left == Spend(out, {"ok"})
        IN  IF out = "ok"
            THEN /\ now' = now + NavWait
                 /\ lpc' = "credentials"
                 /\ faults' = left
                 /\ lhist' = [lhist EXCEPT !.gets = @ + 1]
                 /\ UNCHANGED <<attempt, browser, loginResult>>
            ELSE IF attempt = nav_retries - 1
            THEN /\ lpc' = "done"
                 /\ loginResult' = "False"
                 /\ lhist' = [lhist EXCEPT !.stop = "navigation", !.gets = @ + 1]
                 /\ faults' = left
                 /\ UNCHANGED <<now, attempt, browser>>
            ELSE IF out = "error"
            THEN /\ now' = now + NavRetryWait
                 /\ attempt' = attempt + 1
                 /\ lpc' = "navigate"
                 /\ faults' = left
                 /\ lhist' = [lhist EXCEPT !.gets = @ + 1]
                 /\ UNCHANGED <<browser, loginResult>>
            ELSE \E q \in Allowed(QuitOutcomes, {"ok"}, left) :
                 \E d \in Allowed(DriverOutcomes, {"ok"}, left - Cost(q, {"ok"})) :
                    LET b == init_driver(Quit(browser, browser.driver, q), d)
                    IN  /\ faults' = left - Cost(q, {"ok"}) - Cost(d, {"ok"})
                        /\ IF d = "ok"
                           THEN /\ browser' = [b EXCEPT !.driver = Len(b.sessions)]
                                /\ now' = now + NavRetryWait
                                /\ attempt' = attempt + 1
                                /\ lpc' = "navigate"
                                /\ lhist' = [lhist EXCEPT !.gets = @ + 1, !.starts = @ + 1]
                                /\ UNCHANGED loginResult
                           ELSE /\ browser' = b
                                /\ lpc' = "done"
                                /\ loginResult' = "False"
                                /\ lhist' = [lhist EXCEPT !.stop = "restart", !.gets = @ + 1,
                                                          !.starts = @ + 1]
                                /\ UNCHANGED <<now, attempt>>
    /\ UNCHANGED <<extractVars, outerVars, pollQuiet, config, page, runResult>>

\* lines 305-379: the lookups of the user name field, the password field and
\* the login button; found is the number of lookups, in this order, that
\* succeed.  A missing element raises and login_to_mteam returns False
EnterCredentials ==
    /\ lpc = "credentials"
    /\ \E found \in 0..3 :
        IF found = 3
        THEN /\ lpc' = "submitted"
             /\ lhist' = [lhist EXCEPT !.creds = TRUE]
             /\ UNCHANGED loginResult
        ELSE /\ lpc' = "done"
             /\ loginResult' = "False"
             /\ lhist' = [lhist EXCEPT !.stop = "form", !.creds = found >= 1]
    /\ UNCHANGED <<extractVars, outerVars, pollQuiet, faults, now, config, page, attempt, browser,
                   runResult>>

\* lines 862-879: the finally of run calls close(), which calls
\* self.driver.quit() when self.driver is set; an exception of quit leaves
\* run in place of the return value
CloseBrowser ==
    /\ lpc = "done"
    /\ lpc' = "returned"
    /\ IF browser.driver = 0
       THEN /\ runResult' = loginResult
            /\ UNCHANGED <<browser, faults>>
       ELSE \E q \in May(QuitOutcomes, {"ok"}) :
            /\ browser' = Quit(browser, browser.driver, q)
            /\ faults' = Spend(q, {"ok"})
            /\ runResult' = IF q = "ok" THEN loginResult ELSE "raised"
    /\ UNCHANGED <<extractVars, outerVars, pollQuiet, now, config, page, attempt, loginResult, lhist>>

\* lines 381-397: wait for the page, then read the URL; a lost browser
\* session ends the run with False
WaitForPage ==
    /\ lpc = "submitted"
    /\ now' = now + PageWait
    /\ \E ok \in BOOLEAN :
        IF ok
        THEN /\ lpc' = "classify"
             /\ UNCHANGED <<loginResult, lhist>>
        ELSE /\ lpc' = "done"
             /\ loginResult' = "False"
             /\ lhist' = [lhist EXCEPT !.class = "lost"]
    /\ UNCHANGED <<extractVars, outerVars, pollLocals, browser, runResult, client, timeout, sent_after_time, mailbox,
                   verification_code, pollResult, config, page, attempt>>

\* lines 399-470: the page is classified; a verification page goes on with
\* handle_email_verification, every other page ends login_to_mteam
Classify ==
    /\ lpc = "classify"
    /\ LET c == Classification(page)
       IN  /\ lhist' = [lhist EXCEPT !.class = c, !.shown = page]
           /\ IF c = "verification"
              THEN /\ lpc' = "verify"
                   /\ loginResult' = loginResult
              ELSE /\ lpc' = "done"
                   /\ loginResult' = Outcome(c)
    /\ UNCHANGED <<extractVars, outerVars, pollLocals, browser, runResult, client, timeout, sent_after_time, now, mailbox,
                   verification_code, pollResult, config, page, attempt>>

\* lines 543-637: the lookups of the address field, the send button and the
\* code field.  found is the number of lookups, in this order, that succeed:
\* find_element raises NoSuchElementException for an absent element, which
\* none of the handlers (they catch TimeoutException) stops before line 797.
\* wait is the time the send button stayed disabled
PrepareVerification ==
    /\ lpc = "verify"
    /\ \E found \in 0..3, wait \in {0, ButtonWait} :
        /\ lhist' = [lhist EXCEPT !.email = IF found >= 1 THEN config["gmail"]["email"] ELSE @,
                                  !.lookups = Min(found + 1, 3),
                                  !.absent = CASE found = 0 -> "address"
                                               [] found = 1 -> "send button"
                                               [] found = 2 -> "code field"
                                               [] OTHER -> "none"]
        /\ now' = IF found >= 2 THEN now + wait ELSE now
        /\ IF found = 3
           THEN /\ lpc' = "send"
                /\ loginResult' = loginResult
           ELSE /\ lpc' = "done"
                /\ loginResult' = "False"
    /\ UNCHANGED <<extractVars, outerVars, pollLocals, browser, runResult, client, timeout, sent_after_time, mailbox,
                   verification_code, pollResult, config, page, attempt>>

\* lines 639-666: the click on the send button; the site then sends a
\* message, dated at the click, that arrives ArrivalDelay seconds later.
\* A failed click is logged and the flow goes on
ClickSend ==
    /\ lpc = "send"
    /\ \E ok \in BOOLEAN :
        LET clicked == now + ScrollWait
        IN  IF ok
            THEN /\ lhist' = [lhist EXCEPT !.sent_at = clicked, !.clicked = "ok"]
                 /\ mailbox' = <<Msg(clicked + ArrivalDelay, TRUE, clicked, CodeB, "verification")>>
                 /\ now' = clicked + SendWait
            ELSE /\ now' = clicked
                 /\ lhist' = [lhist EXCEPT !.clicked = "failed"]
                 /\ UNCHANGED mailbox
    /\ lpc' = "client"
    /\ UNCHANGED <<extractVars, outerVars, pollLocals, browser, runResult, client, timeout, sent_after_time,
                   verification_code, pollResult, config, page, attempt, loginResult>>

\* line 739: self.gmail_client = GmailClient(self.config["gmail"])
MakeClient ==
    /\ lpc = "client"
    /\ client' = GmailClientInit(config["gmail"])
    /\ attempt' = 0
    /\ lpc' = "poll"
    /\ UNCHANGED <<extractVars, outerVars, pollLocals, browser, runResult, timeout, sent_after_time, now, mailbox,
                   verification_code, pollResult, config, page, loginResult, lhist>>

\* lines 743-750: one pass of the retrieval loop: the call
\* get_verification_code(timeout=60), then break, sleep or next pass
PollAttempt ==
    /\ lpc = "poll"
    /\ timeout' = LoginTimeout
    /\ sent_after_time' = 0
    /\ \E e \in PollEnds(client, mailbox, timeout', sent_after_time', now) :
        LET back == now + e.took
        IN  /\ pollResult' = e.result
            /\ verification_code' = e.result
            /\ lhist' = [lhist EXCEPT !.calls =
                            Append(@, [at |-> now, timeout |-> timeout',
                                       sent_after_time |-> sent_after_time',
                                       result |-> e.result, why |-> e.why, back |-> back])]
            /\ IF e.result # NoCode
               THEN /\ lpc' = "submit"
                    /\ now' = back
                    /\ UNCHANGED attempt
               ELSE /\ now' = IF attempt < 1 THEN back + RetryWait ELSE back
                    /\ IF MorePasses(attempt)
                       THEN /\ attempt' = attempt + 1
                            /\ lpc' = "poll"
                       ELSE /\ attempt' = attempt
                            /\ lpc' = "submit"
    /\ UNCHANGED <<extractVars, outerVars, pollLocals, browser, runResult, client, mailbox, config, page, loginResult>>

\* lines 752-799: without a code the flow returns False; with a code it types
\* the code, clicks the login button, waits and reads the resulting page
SubmitCode ==
    /\ lpc = "submit"
    /\ lpc' = "done"
    /\ IF ~HasCode(verification_code)
       THEN /\ loginResult' = "False"
            /\ UNCHANGED <<now, page, lhist>>
       ELSE \E login_button \in BOOLEAN, p \in ResultPages :
            IF login_button
            THEN /\ lhist' = [lhist EXCEPT !.typed = verification_code, !.submitted = TRUE]
                 /\ now' = now + ResultWait
                 /\ page' = p
                 /\ loginResult' = IF is_login_successful(p) THEN "True" ELSE "False"
            ELSE /\ lhist' = [lhist EXCEPT !.typed = verification_code]
                 /\ loginResult' = "False"
                 /\ UNCHANGED <<now, page>>
    /\ UNCHANGED <<extractVars, outerVars, pollLocals, browser, runResult, client, timeout, sent_after_time, mailbox,
                   verification_code, pollResult, config, attempt>>

LoginNext ==
    \/ StartDriver
    \/ Navigate
    \/ EnterCredentials
    \/ CloseBrowser
    \/ WaitForPage
    \/ Classify
    \/ PrepareVerification
    \/ ClickSend
    \/ MakeClient
    \/ PollAttempt
    \/ SubmitCode

SpecLogin == LoginInit /\ [][LoginNext]_vars

-----------------------------------------------------------------------------
(***************************************************************************)
(* The log records that show the mailbox address: the record of            *)
(* gmail_client.py line 45 and the record of mteam_login.py line 561.      *)
(* A record is its text and the positions of the address it shows.         *)
(***************************************************************************)
MaxLocal == 4
MaskHead == 3
MaskTail == 10

LocalChars == {"a", "b"}
Domains ==
    { <<"@","x",".","y">>,
      <<"@","g","m","a","i","l",".","c","o","m">>,
      <<"@","e","x","a","m","p","l","e",".","o","r","g">> }
Addresses ==
    { l \o d : l \in UNION { [1..n -> LocalChars] : n \in 1..MaxLocal }, d \in Domains }

Max(a, b) == IF a >= b THEN a ELSE b
\* Python s[:n] and s[-n:]
Prefix(s, n) == SubSeq(s, 1, Min(n, Len(s)))
Suffix(s, n) == SubSeq(s, Max(1, Len(s) - n + 1), Len(s))

\* gmail_client.py line 45: email[:3] + "***" + email[-10:], and the
\* positions of the address that text shows
MaskedAddress(a) == Prefix(a, MaskHead) \o <<"*","*","*">> \o Suffix(a, MaskTail)
MaskShows(a) == (1..Min(MaskHead, Len(a))) \cup (Max(1, Len(a) - MaskTail + 1)..Len(a))

\* the record of gmail_client.py line 45 and the record of mteam_login.py
\* line 561, which prints the address as it is
ConnectRecord(a) == [line |-> "gmail_client:45", text |-> MaskedAddress(a), shows |-> MaskShows(a)]
TypedRecord(a) == [line |-> "mteam_login:561", text |-> a, shows |-> 1..Len(a)]

LogInit ==
    /\ address \in Addresses
    /\ logged = {}
    /\ epc = "idle"
    /\ message = <<>>
    /\ body = <<>>
    /\ code = NoCode
    /\ PollIdle
    /\ LoginIdle
    /\ ScheduleIdle

\* mteam_login.py lines 558-561: the address is typed into the form and logged
LogTyped ==
    /\ TypedRecord(address) \notin logged
    /\ logged' = logged \cup {TypedRecord(address)}
    /\ UNCHANGED <<address, extractVars, pollVars, loginVars, schedVars>>

\* gmail_client.py lines 43-45: the poll call logs the address it connects for
LogConnect ==
    /\ ConnectRecord(address) \notin logged
    /\ logged' = logged \cup {ConnectRecord(address)}
    /\ UNCHANGED <<address, extractVars, pollVars, loginVars, schedVars>>

LogNext ==
    \/ LogTyped
    \/ LogConnect

SpecLog == LogInit /\ [][LogNext]_vars

\* C29: every log record that shows the mailbox address hides at least one
\* of its characters, whatever the length of the address.
C29_AlwaysMasked ==
    \A r \in logged : Cardinality(r.shows) < Len(address)

-----------------------------------------------------------------------------
(***************************************************************************)
(* The outer scheduler: run.py main, invoked again and again while time    *)
(* passes.  Time is counted in hours.  The marker file is [state, at]:     *)
(* absent, unreadable (open fails), garbage (its text is no timestamp), or *)
(* time, the timestamp it holds.                                           *)
(***************************************************************************)
MaxDays == 2
DayHours == 24

WallStart == DayHours + 1
MaxWall == WallStart + MaxDays * DayHours
\* the time that passes between two invocations
Steps == {1, DayHours - 1}

NoMarker(state) == [state |-> state, at |-> 0]
TimeMarker(t) == [state |-> "time", at |-> t]
Markers ==
    { NoMarker(s) : s \in {"absent", "unreadable", "garbage"} }
    \cup { TimeMarker(WallStart - a) : a \in {0, 1, DayHours - 1, DayHours, DayHours + 1} }

\* run.py lines 19-30: get_last_run_time: the timestamp, or None when the
\* file is absent (line 28) or reading or parsing it raises (line 30)
get_last_run_time(mk) ==
    IF mk.state = "time" THEN [some |-> TRUE, at |-> mk.at] ELSE [some |-> FALSE, at |-> 0]

\* the test of line 57 with a strict comparison
DueLater(age) == age > DayHours

\* run.py line 57: time_diff >= timedelta(days=1)
Due(age) == age >= DayHours

\* run.py lines 46-66: should_run_login at time t
should_run_login(mk, t) ==
    LET last_run == get_last_run_time(mk)
    IN  IF ~last_run.some THEN TRUE ELSE Due(t - last_run.at)

SHistInit ==
    [decided |-> FALSE, at |-> 0, marker |-> NoMarker("absent"), config_ok |-> FALSE,
     started |-> FALSE, runs |-> 0, success |-> [some |-> FALSE, at |-> 0],
     saveFailed |-> FALSE]

ScheduleInit ==
    /\ spc = "asleep"
    /\ wall = WallStart
    /\ marker \in Markers
    /\ shist = [SHistInit EXCEPT !.marker = marker]
    /\ epc = "idle"
    /\ message = <<>>
    /\ body = <<>>
    /\ code = NoCode
    /\ PollIdle
    /\ LoginIdle
    /\ LogIdle

\* time passes between two invocations of run.py
Sleep ==
    /\ spc = "asleep"
    /\ \E d \in Steps :
        /\ wall + d <= MaxWall
        /\ wall' = wall + d
    /\ UNCHANGED <<spc, marker, shist, extractVars, pollVars, loginVars, logVars>>

\* run.py lines 168-185: main up to the decision: check_config, then
\* should_run_login
Main ==
    /\ spc = "asleep"
    /\ \E config_ok \in BOOLEAN :
        LET go == config_ok /\ should_run_login(marker, wall)
        IN  /\ spc' = IF go THEN "run" ELSE "asleep"
            /\ shist' = [shist EXCEPT !.decided = TRUE, !.at = wall, !.marker = marker,
                                      !.config_ok = config_ok, !.started = go]
    /\ UNCHANGED <<wall, marker, extractVars, pollVars, loginVars, logVars>>

\* a marker saved after every run that returned
SavesAfterReturn(out) == out \in {"True", "False"}

\* run.py line 190: if success: does the outcome of run() lead to
\* save_last_run_time
SavesAfter(out) == out = "True"

\* run.py lines 187-214: MTeamLogin().run(); only a True result goes on to
\* save_last_run_time
RunLogin ==
    /\ spc = "run"
    /\ \E out \in {"True", "False", "raised"} :
        /\ spc' = IF SavesAfter(out) THEN "save" ELSE "asleep"
        /\ shist' = [shist EXCEPT !.runs = 1,
                                  !.success = IF out = "True"
                                              THEN [some |-> TRUE, at |-> wall]
                                              ELSE @]
    /\ UNCHANGED <<wall, marker, extractVars, pollVars, loginVars, logVars>>

\* run.py lines 33-43: save_last_run_time: the file is written; or open
\* fails and the file stays; or the write fails after open truncated it
SaveMarker ==
    /\ spc = "save"
    /\ \E out \in {"written", "open fails", "write fails"} :
        /\ marker' = CASE out = "written" -> TimeMarker(wall)
                       [] out = "open fails" -> marker
                       [] OTHER -> NoMarker("garbage")
        /\ shist' = [shist EXCEPT !.saveFailed = (out # "written")]
    /\ spc' = "asleep"
    /\ UNCHANGED <<wall, extractVars, pollVars, loginVars, logVars>>

ScheduleNext ==
    \/ Sleep
    \/ Main
    \/ RunLogin
    \/ SaveMarker

SpecSchedule == ScheduleInit /\ [][ScheduleNext]_vars

\* C30: an invocation of main with a valid configuration starts no login
\* when the marker holds a timestamp less than 24 hours old, and starts one
\* when the marker is absent, cannot be read or parsed, or holds a timestamp
\* that is 24 hours old or older.
C30_OncePerDay ==
    /\ (shist.decided /\ shist.config_ok) =>
          (shist.started <=>
              (shist.marker.state # "time" \/ shist.at - shist.marker.at >= 24))
    /\ spc \in {"run", "save"} => shist.started

\* C30 witness: a login was started on a marker written by an earlier
\* successful run exactly 24 hours before
C30_Witness ==
    /\ spc = "run"
    /\ shist.started
    /\ shist.marker.state = "time"
    /\ shist.marker.at > WallStart
    /\ shist.at - shist.marker.at = 24

\* C40 as stated: after any sequence of runs the marker holds the time of
\* the most recent successful run
C40_HoldsLastSuccess ==
    (spc = "asleep" /\ shist.success.some) => marker = TimeMarker(shist.success.at)

\* C40: save_last_run_time is reached only after a successful run: a run
\* that fails, is skipped or raises leaves the marker as the invocation found
\* it; and unless the last save failed, the marker holds the time of the most
\* recent successful run
C40_WrittenOnlyAfterSuccess ==
    /\ spc = "save" => (shist.success.some /\ shist.success.at = wall)
    /\ (spc = "asleep" /\ shist.decided /\ shist.success.at # shist.at) => marker = shist.marker
    /\ (spc = "asleep" /\ shist.success.some /\ ~shist.saveFailed)
          => marker = TimeMarker(shist.success.at)

\* C40 witness: a run succeeded and its time was saved; a day later another
\* run failed and the marker still holds the time of the first
C40_Witness ==
    /\ spc = "asleep"
    /\ shist.success.some
    /\ ~shist.saveFailed
    /\ shist.started
    /\ shist.at > shist.success.at
    /\ marker = TimeMarker(shist.success.at)

-----------------------------------------------------------------------------
(***************************************************************************)
(* Properties of the login flow.                                           *)
(***************************************************************************)

\* C2: the time of the click on the send button is recorded, and every call
\* of get_verification_code of the episode is given that time as
\* sent_after_time.
C2_SendTimePassed ==
    lhist.sent_at # 0 =>
        \A i \in DOMAIN lhist.calls : lhist.calls[i].sent_after_time = lhist.sent_at

\* C3: with the client built from the gmail section, once the verification
\* flow has asked the poller while a fresh message with a 6-digit code was in
\* the mailbox, the flow has typed that code into the code field.
C3_SectionClientRetrieves ==
    ( /\ lpc = "done"
      /\ lhist.calls # <<>>
      /\ mailbox # <<>>
      /\ mailbox[1].arrive <= lhist.calls[1].at
      /\ BodyCode[mailbox[1].body] # NoCode )
    => lhist.typed = BodyCode[mailbox[1].body]

\* the indicators of a verification page and of a login that succeeded
VerificationIndicators(p) == "verify" \in p.url \/ "verify" \in p.title \/ p.velem = "shown"
SuccessIndicators(p) ==
    "success" \in p.url \/ ("login" \notin p.title /\ p.title # {}) \/ p.selem

\* C10: the classified page obeys error > verification > success: an error
\* indicator gives failure whatever else the page shows; without one, a
\* verification indicator starts the verification flow with no outcome
\* reported yet, also when success indicators are there; without either, a
\* success indicator gives success.
C10_Precedence ==
    lhist.class \notin {"none", "lost"} =>
        LET p == lhist.shown
        IN  /\ p.err => (lhist.class = "error" /\ loginResult = "False")
            /\ (~p.err /\ VerificationIndicators(p)) =>
                  /\ lhist.class = "verification"
                  /\ lpc = "verify" => loginResult = "pending"
            /\ (~p.err /\ ~VerificationIndicators(p) /\ SuccessIndicators(p)) =>
                  (lhist.class = "success" /\ loginResult = "True")

\* C10 witness: a page that shows a verification element and also a success
\* URL and a logout link has started the verification flow
C10_Witness ==
    /\ lpc = "verify"
    /\ lhist.class = "verification"
    /\ ~lhist.shown.err
    /\ lhist.shown.velem = "shown"
    /\ "success" \in lhist.shown.url
    /\ lhist.shown.selem
    /\ loginResult = "pending"

\* the run is over and its value was handed to the caller of run()
Returned == lpc = "returned"

\* C11: a page that cannot be classified (no error, verification or success
\* indicator, credential form absent) gives the caller of run() a value
\* different from the value given for a rejected login.
C11_IndeterminateDistinct ==
    (Returned /\ lhist.class = "indeterminate") => runResult # Outcome("rejected")

\* C12: in one verification episode get_verification_code is invoked at most 5
\* times, and an invocation that returned a code is the last one.
C12_BoundedInvocations ==
    /\ Len(lhist.calls) <= 5
    /\ \A i \in DOMAIN lhist.calls :
          lhist.calls[i].result # NoCode => i = Len(lhist.calls)

\* C12 witness: the fifth invocation returned a code after four that returned
\* none, and the code was submitted
C12_Witness ==
    /\ Returned
    /\ Len(lhist.calls) = 5
    /\ \A i \in 1..4 : lhist.calls[i].result = NoCode
    /\ lhist.calls[5].result # NoCode
    /\ lhist.submitted

\* C13: every invocation after the first starts at least 5 seconds after the
\* invocation before it came back without a code.
C13_DelayBetweenCalls ==
    \A i \in DOMAIN lhist.calls :
        i > 1 => lhist.calls[i].at >= lhist.calls[i - 1].back + 5

\* C14: when the verification flow has ended and none of its invocations of
\* the poller returned a code, the flow returned False, nothing was typed into
\* the code field and the login button was not clicked.
C14_NoCodeNoSubmit ==
    ( /\ lpc \in {"done", "returned"}
      /\ lhist.calls # <<>>
      /\ \A i \in DOMAIN lhist.calls : lhist.calls[i].result = NoCode )
    => /\ loginResult = "False"
       /\ lhist.typed = NoCode
       /\ ~lhist.submitted

\* C14 witness: five invocations of a client that has its address came back
\* without a code, the first after a search that found nothing, and the run
\* returned
C14_Witness ==
    /\ Returned
    /\ Len(lhist.calls) = 5
    /\ \A i \in DOMAIN lhist.calls : lhist.calls[i].result = NoCode
    /\ lhist.calls[1].why = "not found"
    /\ loginResult = "False"

\* C15: an invocation that ended because the mailbox rejected the credentials
\* is the last invocation of the run, and the retrieval loop is left.
C15_RejectionIsFatal ==
    \A i \in DOMAIN lhist.calls :
        lhist.calls[i].why = "login rejected" =>
            (i = Len(lhist.calls) /\ lpc # "poll")

\* C18: when run() has ended, quit() was invoked on every browser session
\* that init_driver started during the run.
C18_EverySessionQuit ==
    Returned => \A i \in DOMAIN browser.sessions : browser.sessions[i].quit_called

\* C19: run() ends by returning the outcome login_to_mteam computed; a
\* failure of the browser teardown does not take its place.
C19_AlwaysReturnsOutcome ==
    Returned => (runResult \in {"True", "False"} /\ runResult = loginResult)

\* C25: in one verification episode the time an invocation of the poller
\* searches back to is not earlier than that of the invocation before it, and
\* not earlier than the time of the click on the send button (less the guard
\* the poller subtracts from a send time).
C25_BoundNeverEarlier ==
    \A i \in DOMAIN lhist.calls :
        LET from(k) == SearchFrom(lhist.calls[k].sent_after_time, lhist.calls[k].at)
        IN  /\ i > 1 => from(i) >= from(i - 1)
            /\ lhist.sent_at # 0 => from(i) >= lhist.sent_at - Guard

\* C28: when the browser driver cannot be started at the beginning of the
\* run, login_to_mteam ends with False, the login page was never requested,
\* no credentials were typed, and init_driver was called once.
C28_NoStartNoRun ==
    lhist.stop = "driver" =>
        /\ lpc \in {"done", "returned"}
        /\ loginResult = "False"
        /\ lhist.starts = 1
        /\ lhist.gets = 0
        /\ ~lhist.creds
        /\ lhist.calls = <<>>

\* C28 witness: the run has returned after a start that failed with no
\* browser session started
C28_Witness ==
    /\ Returned
    /\ lhist.stop = "driver"
    /\ browser.sessions = <<>>
    /\ runResult = "False"


\* C34: after the code was submitted, a page that shows an explicit error
\* indicator is never reported as a successful login
C34_ErrorNeverAuthenticated ==
    (lhist.submitted /\ page.err) => loginResult # "True"

\* C35: the poller is called, and a code typed, only after the click on the
\* send button succeeded
C35_PollOnlyAfterSend ==
    /\ lhist.calls # <<>> => lhist.clicked = "ok"
    /\ lhist.typed # NoCode => lhist.clicked = "ok"

\* C39: when the address field is absent the flow goes on to look for the
\* send button and the code field; the episode does not end there
C39_AbsentAddressGoesOn ==
    lhist.absent = "address" => (lhist.lookups > 1 /\ lpc \notin {"done", "returned"})

=============================================================================
